---- MODULE Spec2Model ----
(***************************************************************************)
(* The schema updater of the Cloud Spanner emulator                        *)
(* (backend/schema/updater/schema_updater.cc).                             *)
(*                                                                         *)
(* Schema nodes live in a heap of cells addressed by handles (the C++      *)
(* pointers).  A snapshot is the sequence of the handles of its nodes, in  *)
(* creation order.  A DDL statement is applied through a graph editor that *)
(* clones the nodes it edits and, on canonicalization, clones every other  *)
(* surviving node and rewrites every reference to the clones.              *)
(*                                                                         *)
(* Names are sequences of one-character strings, so that case folding and  *)
(* concatenation are computed and not assumed.                             *)
(***************************************************************************)
EXTENDS Integers, Sequences, FiniteSets, TLC

\* Total number of DDL statements fed to the updater over all calls.
MaxStatements == 3

NULL == 0

---------------------------------------------------------------------------
(* Names *)

LowerChar(c) ==
  CASE c = "T" -> "t"
    [] c = "U" -> "u"
    [] c = "I" -> "i"
    [] c = "A" -> "a"
    [] c = "B" -> "b"
    [] c = "K" -> "k"
    [] c = "F" -> "f"
    [] c = "J" -> "j"
    [] c = "X" -> "x"
    [] c = "N" -> "n"
    [] OTHER -> c

ToLower(s) == [i \in 1..Len(s) |-> LowerChar(s[i])]

EqualsIgnoreCase(a, b) == ToLower(a) = ToLower(b)

kIndexDataTablePrefix == <<"_", "i", "x", "_">>

---------------------------------------------------------------------------
(* Status values *)

OkStatus == [code |-> "OK", kind |-> "", names |-> <<>>]

Error(code, kind, names) == [code |-> code, kind |-> kind, names |-> names]

---------------------------------------------------------------------------
(* Schema nodes *)

NewTable(id, name) ==
  [kind |-> "Table", id |-> id, name |-> name, columns |-> <<>>,
   primary_key |-> <<>>, parent |-> NULL, children |-> <<>>,
   foreign_keys |-> <<>>, referencing_foreign_keys |-> <<>>,
   on_delete |-> "NO_ACTION", owner_index |-> NULL, indexes |-> <<>>]

NewColumn ==
  [kind |-> "Column", id |-> <<>>, name |-> <<>>, table |-> NULL,
   type |-> "", nullable |-> TRUE, declared_max_length |-> -1,
   allow_commit_timestamp |-> "nullopt", source_column |-> NULL]

NewKeyColumn ==
  [kind |-> "KeyColumn", column |-> NULL, descending |-> FALSE]

NewIndex ==
  [kind |-> "Index", name |-> <<>>, unique |-> FALSE, null_filtered |-> FALSE,
   indexed_table |-> NULL, index_data_table |-> NULL, key_columns |-> <<>>,
   stored_columns |-> <<>>]

NewForeignKey ==
  [kind |-> "ForeignKey", name |-> <<>>, generated |-> FALSE,
   referencing_table |-> NULL, referenced_table |-> NULL,
   referencing_columns |-> <<>>, referenced_columns |-> <<>>]

\* The fields of a node that hold one reference, and those that hold a list.
SingleRefs(kind) ==
  CASE kind = "Table" -> {"parent", "owner_index"}
    [] kind = "Column" -> {"table", "source_column"}
    [] kind = "KeyColumn" -> {"column"}
    [] kind = "Index" -> {"indexed_table", "index_data_table"}
    [] kind = "ForeignKey" -> {"referencing_table", "referenced_table"}

ListRefs(kind) ==
  CASE kind = "Table" -> {"columns", "primary_key", "children", "foreign_keys",
                          "referencing_foreign_keys", "indexes"}
    [] kind = "Column" -> {}
    [] kind = "KeyColumn" -> {}
    [] kind = "Index" -> {"key_columns", "stored_columns"}
    [] kind = "ForeignKey" -> {"referencing_columns", "referenced_columns"}

Range(s) == {s[i] : i \in 1..Len(s)}

\* Every handle a node refers to.
RefsOf(node) ==
  ({node[f] : f \in SingleRefs(node.kind)} \ {NULL})
    \cup UNION {Range(node[f]) : f \in ListRefs(node.kind)}

---------------------------------------------------------------------------
(* Lookups on a snapshot: `graph` is its sequence of node handles *)

\* The first element of s that is in the set `matching`, or NULL.
FindFirst(s, matching) ==
  IF \E i \in 1..Len(s) : s[i] \in matching
  THEN s[CHOOSE i \in 1..Len(s) :
           s[i] \in matching /\ \A j \in 1..(i - 1) : s[j] \notin matching]
  ELSE NULL

\* The nodes of s with the given name, compared without regard to case.
Named(heap, s, name) ==
  {h \in Range(s) : EqualsIgnoreCase(heap[h].name, name)}

\* The nodes of s with exactly the given name.
NamedCaseSensitive(heap, s, name) == {h \in Range(s) : heap[h].name = name}

\* The public tables of a snapshot (index data tables are internal).
tables(heap, graph) ==
  LET IsPublicTable(h) ==
        heap[h].kind = "Table" /\ heap[h].owner_index = NULL
  IN  SelectSeq(graph, IsPublicTable)

indexes(heap, graph) ==
  LET IsIndex(h) == heap[h].kind = "Index"
  IN  SelectSeq(graph, IsIndex)

num_index(heap, graph) == Len(indexes(heap, graph))

FindTable(heap, graph, name) ==
  FindFirst(tables(heap, graph), Named(heap, tables(heap, graph), name))

FindTableCaseSensitive(heap, graph, name) ==
  FindFirst(tables(heap, graph),
            NamedCaseSensitive(heap, tables(heap, graph), name))

FindIndex(heap, graph, name) ==
  FindFirst(indexes(heap, graph), Named(heap, indexes(heap, graph), name))

FindColumn(heap, table, name) ==
  FindFirst(heap[table].columns, Named(heap, heap[table].columns, name))

FindColumnCaseSensitive(heap, table, name) ==
  FindFirst(heap[table].columns,
            NamedCaseSensitive(heap, heap[table].columns, name))

FindForeignKey(heap, table, name) ==
  FindFirst(heap[table].foreign_keys,
            Named(heap, heap[table].foreign_keys, name))

OwningObjectType(heap, table) ==
  IF heap[table].owner_index = NULL THEN "Table" ELSE "Index"

OwningObjectName(heap, table) ==
  IF heap[table].owner_index = NULL THEN heap[table].name
  ELSE heap[heap[table].owner_index].name

\* The name a node contributes to the global namespace, if any.
HasGlobalName(node) == node.kind \in {"Table", "Index", "ForeignKey"}

NameKind(node) ==
  CASE node.kind = "Table" -> "Table"
    [] node.kind = "Index" -> "Index"
    [] node.kind = "ForeignKey" -> "Foreign Key"

---------------------------------------------------------------------------
(* The state of one SchemaUpdaterImpl while it applies a statement:         *)
(*   heap          the node cells                                           *)
(*   latest        latest_schema_, the graph the editor was opened on       *)
(*   clones        editor: original node -> its edited clone                *)
(*   added         editor: the nodes added, in order                        *)
(*   deleted       editor: the original nodes deleted                       *)
(*   names         global_names_                                            *)
(*   table_ids, column_ids   the ID generators' counters                    *)
(*   actions       the statement context's deferred actions                 *)
(*   status        the status the current call chain is returning           *)
(*   ret           the handle (or graph) the last operation returned        *)

Ok(e) == e.status.code = "OK"

Fail(e, status) == [e EXCEPT !.status = status]

\* A builder's constructor: a fresh cell; ret is builder.get().
Alloc(e, node) ==
  [e EXCEPT !.heap = Append(@, node), !.ret = Len(e.heap) + 1]

Set(e, h, f, v) == [e EXCEPT !.heap[h][f] = v]

Push(e, h, f, v) == [e EXCEPT !.heap[h][f] = Append(@, v)]

\* GlobalSchemaNames::AddName
AddName(e, kind, name) ==
  IF \E n \in e.names : EqualsIgnoreCase(n, name)
  THEN Fail(e, Error("DuplicateName", kind, <<name>>))
  ELSE [e EXCEPT !.names = @ \cup {name}]

\* GlobalSchemaNames::GenerateForeignKeyName: a synthetic name made unique by
\* a counter suffix.
GeneratedForeignKeyName(names, referencing, referenced) ==
  LET base == <<"F", "K", "_">> \o referencing \o <<"_">> \o referenced
                \o <<"_">>
      Free(n) == \A m \in names : ~EqualsIgnoreCase(m, base \o <<ToString(n)>>)
      n == CHOOSE k \in 1..(Cardinality(names) + 1) :
             Free(k) /\ \A j \in 1..(k - 1) : ~Free(j)
  IN  base \o <<ToString(n)>>

\* SchemaGraphEditor::EditNode: a node of the original graph is cloned once
\* and the clone is edited; a node built in this statement is edited as it is.
\* ret is the node the callback's editor works on (editor->get()).
EditNode(e, node) ==
  IF node \in Range(e.latest)
  THEN IF node \in DOMAIN e.clones
       THEN [e EXCEPT !.ret = e.clones[node]]
       ELSE [e EXCEPT !.heap = Append(@, e.heap[node]),
                      !.clones = @ @@ (node :> (Len(e.heap) + 1)),
                      !.ret = Len(e.heap) + 1]
  ELSE [e EXCEPT !.ret = node]

\* SchemaGraphEditor::AddNode
EditorAddNode(e, node) == [e EXCEPT !.added = Append(@, node)]

\* SchemaGraphEditor::DeleteNode
EditorDeleteNode(e, node) == [e EXCEPT !.deleted = @ \cup {node}]

---------------------------------------------------------------------------
(* SchemaGraphEditor::CanonicalizeGraph *)

\* The nodes a node owns: they are deleted with it.
Owned(heap, h) ==
  CASE heap[h].kind = "Table" ->
         Range(heap[h].columns) \cup Range(heap[h].primary_key)
           \cup Range(heap[h].foreign_keys)
    [] heap[h].kind = "Index" -> {heap[h].index_data_table} \ {NULL}
    [] OTHER -> {}

RECURSIVE DeletionClosure(_, _)
DeletionClosure(heap, D) ==
  LET D2 == D \cup UNION {Owned(heap, h) : h \in D}
  IN  IF D2 = D THEN D ELSE DeletionClosure(heap, D2)

\* A table's lists drop the entries that were deleted; every other reference
\* to a deleted node is left dangling, which is an error.
Dangling(node, D) ==
  \/ \E f \in SingleRefs(node.kind) : node[f] \in D
  \/ /\ node.kind # "Table"
     /\ \E f \in ListRefs(node.kind) : Range(node[f]) \cap D # {}

IndexOf(s, x) == CHOOSE i \in 1..Len(s) : s[i] = x

\* A node with every reference mapped by the function `map` and the deleted
\* entries of its lists dropped.
Rewrite(node, D, map) ==
  LET One(r) == IF r = NULL THEN NULL ELSE map[r]
      Alive(r) == r \notin D
      List(l) == LET kept == SelectSeq(l, Alive)
                 IN  [i \in 1..Len(kept) |-> map[kept[i]]]
  IN  CASE node.kind = "Table" ->
             [node EXCEPT !.parent = One(@), !.owner_index = One(@),
                          !.columns = List(@), !.primary_key = List(@),
                          !.children = List(@), !.foreign_keys = List(@),
                          !.referencing_foreign_keys = List(@),
                          !.indexes = List(@)]
        [] node.kind = "Column" ->
             [node EXCEPT !.table = One(@), !.source_column = One(@)]
        [] node.kind = "KeyColumn" -> [node EXCEPT !.column = One(@)]
        [] node.kind = "Index" ->
             [node EXCEPT !.indexed_table = One(@),
                          !.index_data_table = One(@),
                          !.key_columns = List(@), !.stored_columns = List(@)]
        [] node.kind = "ForeignKey" ->
             [node EXCEPT !.referencing_table = One(@),
                          !.referenced_table = One(@),
                          !.referencing_columns = List(@),
                          !.referenced_columns = List(@)]

\* The new graph: a clone of every surviving node of the original graph, in
\* the original order, then the added nodes; every reference to an original
\* node is replaced by a reference to its clone.  The names of the deleted
\* nodes leave the name registry.  ret is the new graph.
CanonicalizeGraph(e) ==
  LET D == DeletionClosure(e.heap, e.deleted)
      Alive(h) == h \notin D
      survivors == SelectSeq(e.latest, Alive)
      Unedited(h) == h \notin DOMAIN e.clones
      fresh == SelectSeq(survivors, Unedited)
      base == Len(e.heap)
      Clone(h) == IF h \in DOMAIN e.clones THEN e.clones[h]
                  ELSE base + IndexOf(fresh, h)
      heap1 == e.heap \o [i \in 1..Len(fresh) |-> e.heap[fresh[i]]]
      map == [r \in 1..Len(heap1) |->
                IF r \in Range(survivors) THEN Clone(r) ELSE r]
      graph == [i \in 1..Len(survivors) |-> Clone(survivors[i])] \o e.added
      heap2 == [h \in 1..Len(heap1) |->
                  IF h \in Range(graph) THEN Rewrite(heap1[h], D, map)
                  ELSE heap1[h]]
      freed == {e.heap[h].name : h \in {d \in D : HasGlobalName(e.heap[d])}}
  IN  IF \E h \in Range(graph) : Dangling(heap1[h], D)
      THEN Fail(e, Error("DanglingReference", "", <<>>))
      ELSE [e EXCEPT !.heap = heap2, !.ret = graph,
                     !.names = {n \in @ : \A f \in freed :
                                            ~EqualsIgnoreCase(n, f)}]

---------------------------------------------------------------------------
(* SchemaUpdaterImpl: the statement applier *)

\* limits::kMaxTablesPerDatabase, limits::kMaxIndexesPerDatabase
kMaxTablesPerDatabase == 2

kMaxIndexesPerDatabase == 2

\* ddl::kCommitTimestampOptionName
kCommitTimestampOptionName == "allow_commit_timestamp"

\* TableIDGenerator::NextId, ColumnIDGenerator::NextId: the key and the next
\* number of the generator.
NextId(key, counter) == key \o <<":", ToString(counter)>>

\* DDLColumnTypeToGoogleSqlType
DDLColumnTypeToGoogleSqlType(column_type) == column_type

AddNode(e, node) == EditorAddNode(e, node)

DropNode(e, node) ==
  IF node = NULL THEN Fail(e, Error("Internal", "", <<>>))
  ELSE EditorDeleteNode(e, node)

\* An AlterNode that hands the callback the node itself.
AlterNodeInPlace(e, node) ==
  IF node = NULL THEN Fail(e, Error("Internal", "", <<>>))
  ELSE [e EXCEPT !.ret = node]

AlterNode(e, node) ==
  IF node = NULL THEN Fail(e, Error("Internal", "", <<>>))
  ELSE EditNode(e, node)

RECURSIVE CreateColumnOptionsFrom(_, _)
CreateColumnOptionsFrom(option_val, acc) ==
  IF option_val = <<>> \/ acc.status.code # "OK" THEN acc
  ELSE LET option == Head(option_val)
       IN  IF option.name # kCommitTimestampOptionName
           THEN [acc EXCEPT !.status = Error("Internal", "", <<>>)]
           ELSE CreateColumnOptionsFrom(Tail(option_val),
                  CASE option.kind = "bool_value" ->
                         [acc EXCEPT !.value = IF option.bool_value
                                               THEN "true" ELSE "false"]
                    [] option.kind = "null_value" ->
                         [acc EXCEPT !.value = "nullopt"]
                    [] OTHER ->
                         [acc EXCEPT !.status = Error("Internal", "", <<>>)])

\* The optional<bool> of the commit timestamp option, with a status.
CreateColumnOptions(options) ==
  CreateColumnOptionsFrom(options, [status |-> OkStatus, value |-> "nullopt"])

RECURSIVE ApplyColumnConstraints(_, _, _)
ApplyColumnConstraints(e, constraints, modifier) ==
  IF constraints = <<>> \/ ~Ok(e) THEN e
  ELSE LET c == Head(constraints)
       IN  ApplyColumnConstraints(
             CASE c.kind = "NotNull" -> Set(e, modifier, "nullable", c.nullable)
               [] c.kind = "ColumnLength" ->
                    Set(e, modifier, "declared_max_length", c.max_length)
               [] OTHER -> Fail(e, Error("Internal", "", <<>>)),
             Tail(constraints), modifier)

\* ZETASQL_RETURN_IF_ERROR and ZETASQL_ASSIGN_OR_RETURN: the rest of the
\* function, K, runs on the outcome of a call only if the call succeeded.
Bind(e, K(_)) == IF Ok(e) THEN K(e) ELSE e

\* A SetColumnDefinition that starts from the values the column has.
SetColumnDefinitionKeeping(e, ddl_column, modifier) ==
  LET opts == CreateColumnOptions(ddl_column.options)
  IN  Bind(ApplyColumnConstraints(
             IF ddl_column.has_column_type
             THEN Set(e, modifier, "type",
                      DDLColumnTypeToGoogleSqlType(ddl_column.column_type))
             ELSE e,
             ddl_column.constraints, modifier),
           LAMBDA e1 :
             IF ~ddl_column.has_options THEN e1
             ELSE IF opts.status.code # "OK" THEN Fail(e1, opts.status)
             ELSE Set(e1, modifier, "allow_commit_timestamp", opts.value))

\* `modifier` is the column a Column::Builder or Column::Editor works on.
SetColumnDefinition(e, ddl_column, modifier) ==
  LET opts == CreateColumnOptions(ddl_column.options)
  IN  Bind(ApplyColumnConstraints(
             Set(Set(IF ddl_column.has_column_type
                     THEN Set(e, modifier, "type",
                              DDLColumnTypeToGoogleSqlType(
                                ddl_column.column_type))
                     ELSE e,
                     modifier, "nullable", TRUE),
                 modifier, "declared_max_length", -1),
             ddl_column.constraints, modifier),
           LAMBDA e1 :
             IF ~ddl_column.has_options THEN e1
             ELSE IF opts.status.code # "OK" THEN Fail(e1, opts.status)
             ELSE Set(e1, modifier, "allow_commit_timestamp", opts.value))

\* ret is the new column.
CreateColumn(e, ddl_column, table) ==
  LET column_name == ddl_column.column_name
  IN  Bind(Alloc([e EXCEPT !.column_ids = @ + 1],
                 [NewColumn EXCEPT
                    !.id = NextId(e.heap[table].name \o <<".">> \o column_name,
                                  e.column_ids),
                    !.name = column_name]),
           LAMBDA builder :
      Bind(SetColumnDefinition(builder, ddl_column, builder.ret),
           LAMBDA e1 :
      [AddNode(Set(e1, builder.ret, "table", table), builder.ret)
         EXCEPT !.ret = builder.ret]))

\* A CreateInterleaveConstraint that reports a missing parent the same way for
\* a table and for the data table of an index.
CreateInterleaveConstraintAnyTable(e, interleave, builder) ==
  LET parent == FindTable(e.heap, e.latest, interleave.parent)
  IN  IF parent = NULL
      THEN Fail(e, Error("TableNotFound", "", <<interleave.parent>>))
      ELSE IF e.heap[builder].parent # NULL
      THEN Fail(e, Error("Internal", "", <<>>))
      ELSE Bind(AlterNode(e, parent), LAMBDA parent_editor :
           Set(Set(Push(parent_editor, parent_editor.ret, "children", builder),
                   builder, "parent", parent_editor.ret),
               builder, "on_delete",
               IF interleave.on_delete = "CASCADE" THEN "CASCADE"
               ELSE "NO_ACTION"))

\* A CreateInterleaveConstraint that does not add the child to the parent.
CreateInterleaveConstraintOneWay(e, interleave, builder) ==
  LET parent == FindTable(e.heap, e.latest, interleave.parent)
  IN  IF parent = NULL
      THEN IF e.heap[builder].owner_index = NULL
           THEN Fail(e, Error("TableNotFound", "", <<interleave.parent>>))
           ELSE Fail(e, Error("IndexInterleaveTableNotFound", "",
                              <<e.heap[e.heap[builder].owner_index].name,
                                interleave.parent>>))
      ELSE IF e.heap[builder].parent # NULL
      THEN Fail(e, Error("Internal", "", <<>>))
      ELSE Bind(AlterNode(e, parent), LAMBDA parent_editor :
           Set(Set(parent_editor,
                   builder, "parent", parent_editor.ret),
               builder, "on_delete",
               IF interleave.on_delete = "CASCADE" THEN "CASCADE"
               ELSE "NO_ACTION"))

CreateInterleaveConstraint(e, interleave, builder) ==
  LET parent == FindTable(e.heap, e.latest, interleave.parent)
  IN  IF parent = NULL
      THEN IF e.heap[builder].owner_index = NULL
           THEN Fail(e, Error("TableNotFound", "", <<interleave.parent>>))
           ELSE Fail(e, Error("IndexInterleaveTableNotFound", "",
                              <<e.heap[e.heap[builder].owner_index].name,
                                interleave.parent>>))
      ELSE IF e.heap[builder].parent # NULL
      THEN Fail(e, Error("Internal", "", <<>>))
      ELSE Bind(AlterNode(e, parent), LAMBDA parent_editor :
           Set(Set(Push(parent_editor, parent_editor.ret, "children", builder),
                   builder, "parent", parent_editor.ret),
               builder, "on_delete",
               IF interleave.on_delete = "CASCADE" THEN "CASCADE"
               ELSE "NO_ACTION"))

\* A CreatePrimaryKeyColumn that does not add the key column to the graph.
CreatePrimaryKeyColumnUnadded(e, ddl_key_part, table) ==
  LET key_column_name == ddl_key_part.key_column_name
      is_descending == (ddl_key_part.order = "DESC")
      column == FindColumnCaseSensitive(e.heap, table, key_column_name)
  IN  IF column = NULL
      THEN Fail(e, Error("NonExistentKeyColumn", OwningObjectType(e.heap, table),
                         <<OwningObjectName(e.heap, table), key_column_name>>))
      ELSE Alloc(e, [NewKeyColumn EXCEPT !.column = column,
                                         !.descending = is_descending])

\* ret is the new key column.
CreatePrimaryKeyColumn(e, ddl_key_part, table) ==
  LET key_column_name == ddl_key_part.key_column_name
      is_descending == (ddl_key_part.order = "DESC")
      column == FindColumnCaseSensitive(e.heap, table, key_column_name)
  IN  IF column = NULL
      THEN Fail(e, Error("NonExistentKeyColumn", OwningObjectType(e.heap, table),
                         <<OwningObjectName(e.heap, table), key_column_name>>))
      ELSE Bind(Alloc(e, [NewKeyColumn EXCEPT !.column = column,
                                              !.descending = is_descending]),
                LAMBDA builder : AddNode(builder, builder.ret))

RECURSIVE CreatePrimaryKeyConstraint(_, _, _)
CreatePrimaryKeyConstraint(e, ddl_primary_key, builder) ==
  IF ddl_primary_key.key_part = <<>> THEN e
  ELSE Bind(CreatePrimaryKeyColumn(e, Head(ddl_primary_key.key_part), builder),
            LAMBDA key_col :
       CreatePrimaryKeyConstraint(
         Push(key_col, builder, "primary_key", key_col.ret),
         [key_part |-> Tail(ddl_primary_key.key_part)], builder))

\* An add_columns that finds the columns without regard to case.
RECURSIVE add_columnsAnyCase(_, _, _, _, _)
add_columnsAnyCase(e, table, column_names, foreign_key, field) ==
  IF column_names = <<>> THEN e
  ELSE LET column_name == Head(column_names)
           column == FindColumn(e.heap, table, column_name)
       IN  IF column = NULL
           THEN Fail(e, Error("ForeignKeyColumnNotFound", "",
                              <<column_name, e.heap[table].name,
                                e.heap[foreign_key].name>>))
           ELSE add_columnsAnyCase(Push(e, foreign_key, field, column), table,
                                   Tail(column_names), foreign_key, field)

\* add_columns of CreateForeignKeyConstraint: the columns of `table` named by
\* column_names are appended to the list `field` of the foreign key.
RECURSIVE add_columns(_, _, _, _, _)
add_columns(e, table, column_names, foreign_key, field) ==
  IF column_names = <<>> THEN e
  ELSE LET column_name == Head(column_names)
           column == FindColumnCaseSensitive(e.heap, table, column_name)
       IN  IF column = NULL
           THEN Fail(e, Error("ForeignKeyColumnNotFound", "",
                              <<column_name, e.heap[table].name,
                                e.heap[foreign_key].name>>))
           ELSE add_columns(Push(e, foreign_key, field, column), table,
                            Tail(column_names), foreign_key, field)

\* A naming that takes the declared name without registering it.
SetForeignKeyNameUnregistered(e, ddl_foreign_key, foreign_key, referencing_table, referenced_table) ==
  LET generated == GeneratedForeignKeyName(e.names,
                                           e.heap[referencing_table].name,
                                           e.heap[referenced_table].name)
  IN  IF ddl_foreign_key.has_constraint_name
      THEN Set(e, foreign_key, "name", ddl_foreign_key.constraint_name)
      ELSE Set(Set([e EXCEPT !.names = @ \cup {generated}],
                   foreign_key, "name", generated),
               foreign_key, "generated", TRUE)

\* The naming of a foreign key: the declared name, which must be new, or a
\* generated one.
SetForeignKeyName(e, ddl_foreign_key, foreign_key, referencing_table, referenced_table) ==
  LET generated == GeneratedForeignKeyName(e.names,
                                           e.heap[referencing_table].name,
                                           e.heap[referenced_table].name)
  IN  IF ddl_foreign_key.has_constraint_name
      THEN Bind(AddName(e, "Foreign Key", ddl_foreign_key.constraint_name),
                LAMBDA e1 : Set(e1, foreign_key, "name",
                                ddl_foreign_key.constraint_name))
      ELSE Set(Set([e EXCEPT !.names = @ \cup {generated}],
                   foreign_key, "name", generated),
               foreign_key, "generated", TRUE)

\* A CreateForeignKeyConstraint that finds the referenced table without regard
\* to case.
CreateForeignKeyConstraintAnyCase(e, ddl_foreign_key, referencing_table_arg) ==
  LET found == FindTable(e.heap, e.latest,
                         ddl_foreign_key.referenced_table_name)
  IN  Bind(Alloc(e, NewForeignKey), LAMBDA foreign_key_builder :
      Bind(AlterNode(foreign_key_builder, referencing_table_arg),
           LAMBDA referencing :
      IF found = NULL
           /\ ddl_foreign_key.referenced_table_name
                # referencing.heap[referencing.ret].name
      THEN Fail(referencing, Error("TableNotFound", "",
                                   <<ddl_foreign_key.referenced_table_name>>))
      ELSE
      Bind(AlterNode(Set(Push(referencing, referencing.ret, "foreign_keys",
                              foreign_key_builder.ret),
                         foreign_key_builder.ret, "referencing_table",
                         referencing.ret),
                     IF found = NULL THEN referencing.ret ELSE found),
           LAMBDA referenced :
      Bind(SetForeignKeyName(
             Set(Push(referenced, referenced.ret, "referencing_foreign_keys",
                      foreign_key_builder.ret),
                 foreign_key_builder.ret, "referenced_table", referenced.ret),
             ddl_foreign_key, foreign_key_builder.ret, referencing.ret,
             referenced.ret),
           LAMBDA e1 :
      Bind(add_columns(e1, referencing.ret,
                       ddl_foreign_key.referencing_column_name,
                       foreign_key_builder.ret, "referencing_columns"),
           LAMBDA e2 :
      Bind(add_columns(e2, referenced.ret,
                       ddl_foreign_key.referenced_column_name,
                       foreign_key_builder.ret, "referenced_columns"),
           LAMBDA e3 :
      AddNode(e3, foreign_key_builder.ret)))))))

\* A CreateForeignKeyConstraint that does not list the foreign key in the
\* referenced table.
CreateForeignKeyConstraintOneWay(e, ddl_foreign_key, referencing_table_arg) ==
  LET found == FindTableCaseSensitive(e.heap, e.latest,
                                      ddl_foreign_key.referenced_table_name)
  IN  Bind(Alloc(e, NewForeignKey), LAMBDA foreign_key_builder :
      Bind(AlterNode(foreign_key_builder, referencing_table_arg),
           LAMBDA referencing :
      IF found = NULL
           /\ ddl_foreign_key.referenced_table_name
                # referencing.heap[referencing.ret].name
      THEN Fail(referencing, Error("TableNotFound", "",
                                   <<ddl_foreign_key.referenced_table_name>>))
      ELSE
      Bind(AlterNode(Set(Push(referencing, referencing.ret, "foreign_keys",
                              foreign_key_builder.ret),
                         foreign_key_builder.ret, "referencing_table",
                         referencing.ret),
                     IF found = NULL THEN referencing.ret ELSE found),
           LAMBDA referenced :
      Bind(SetForeignKeyName(
             Set(referenced,
                 foreign_key_builder.ret, "referenced_table", referenced.ret),
             ddl_foreign_key, foreign_key_builder.ret, referencing.ret,
             referenced.ret),
           LAMBDA e1 :
      Bind(add_columns(e1, referencing.ret,
                       ddl_foreign_key.referencing_column_name,
                       foreign_key_builder.ret, "referencing_columns"),
           LAMBDA e2 :
      Bind(add_columns(e2, referenced.ret,
                       ddl_foreign_key.referenced_column_name,
                       foreign_key_builder.ret, "referenced_columns"),
           LAMBDA e3 :
      AddNode(e3, foreign_key_builder.ret)))))))

CreateForeignKeyConstraint(e, ddl_foreign_key, referencing_table_arg) ==
  LET found == FindTableCaseSensitive(e.heap, e.latest,
                                      ddl_foreign_key.referenced_table_name)
  IN  Bind(Alloc(e, NewForeignKey), LAMBDA foreign_key_builder :
      Bind(AlterNode(foreign_key_builder, referencing_table_arg),
           LAMBDA referencing :
      IF found = NULL
           /\ ddl_foreign_key.referenced_table_name
                # referencing.heap[referencing.ret].name
      THEN Fail(referencing, Error("TableNotFound", "",
                                   <<ddl_foreign_key.referenced_table_name>>))
      ELSE
      Bind(AlterNode(Set(Push(referencing, referencing.ret, "foreign_keys",
                              foreign_key_builder.ret),
                         foreign_key_builder.ret, "referencing_table",
                         referencing.ret),
                     IF found = NULL THEN referencing.ret ELSE found),
           LAMBDA referenced :
      Bind(SetForeignKeyName(
             Set(Push(referenced, referenced.ret, "referencing_foreign_keys",
                      foreign_key_builder.ret),
                 foreign_key_builder.ret, "referenced_table", referenced.ret),
             ddl_foreign_key, foreign_key_builder.ret, referencing.ret,
             referenced.ret),
           LAMBDA e1 :
      Bind(add_columns(e1, referencing.ret,
                       ddl_foreign_key.referencing_column_name,
                       foreign_key_builder.ret, "referencing_columns"),
           LAMBDA e2 :
      Bind(add_columns(e2, referenced.ret,
                       ddl_foreign_key.referenced_column_name,
                       foreign_key_builder.ret, "referenced_columns"),
           LAMBDA e3 :
      AddNode(e3, foreign_key_builder.ret)))))))

RECURSIVE CreateTableColumns(_, _, _)
CreateTableColumns(e, columns, builder) ==
  IF columns = <<>> THEN e
  ELSE Bind(CreateColumn(e, Head(columns), builder), LAMBDA column :
       CreateTableColumns(Push(column, builder, "columns", column.ret),
                          Tail(columns), builder))

RECURSIVE CreateTableConstraints(_, _, _)
CreateTableConstraints(e, constraints, builder) ==
  IF constraints = <<>> THEN e
  ELSE LET ddl_constraint == Head(constraints)
       IN  Bind(CASE ddl_constraint.kind = "PrimaryKey" ->
                       CreatePrimaryKeyConstraint(
                         e, ddl_constraint.primary_key, builder)
                  [] ddl_constraint.kind = "Interleave" ->
                       CreateInterleaveConstraint(
                         e, ddl_constraint.interleave, builder)
                  [] ddl_constraint.kind = "ForeignKey" ->
                       CreateForeignKeyConstraint(
                         e, ddl_constraint.foreign_key, builder)
                  [] OTHER -> Fail(e, Error("Internal", "", <<>>)),
                LAMBDA e1 :
                  CreateTableConstraints(e1, Tail(constraints), builder))

\* A CreateTable that compares the number of tables with > for >=.
CreateTableOneMore(e, ddl_table) ==
  IF Len(tables(e.heap, e.latest)) > kMaxTablesPerDatabase
  THEN Fail(e, Error("TooManyTablesPerDatabase", "", <<ddl_table.table_name>>))
  ELSE Bind(AddName(e, "Table", ddl_table.table_name), LAMBDA e1 :
       Bind(Alloc([e1 EXCEPT !.table_ids = @ + 1],
                  NewTable(NextId(ddl_table.table_name, e1.table_ids),
                           ddl_table.table_name)),
            LAMBDA builder :
       Bind(CreateTableColumns(builder, ddl_table.columns, builder.ret),
            LAMBDA e2 :
       Bind(CreateTableConstraints(e2, ddl_table.constraints, builder.ret),
            LAMBDA e3 :
       AddNode(e3, builder.ret)))))

CreateTable(e, ddl_table) ==
  IF Len(tables(e.heap, e.latest)) >= kMaxTablesPerDatabase
  THEN Fail(e, Error("TooManyTablesPerDatabase", "", <<ddl_table.table_name>>))
  ELSE Bind(AddName(e, "Table", ddl_table.table_name), LAMBDA e1 :
       Bind(Alloc([e1 EXCEPT !.table_ids = @ + 1],
                  NewTable(NextId(ddl_table.table_name, e1.table_ids),
                           ddl_table.table_name)),
            LAMBDA builder :
       Bind(CreateTableColumns(builder, ddl_table.columns, builder.ret),
            LAMBDA e2 :
       Bind(CreateTableConstraints(e2, ddl_table.constraints, builder.ret),
            LAMBDA e3 :
       AddNode(e3, builder.ret)))))

\* A CreateIndexDataTableColumn that finds the source column by its exact
\* name.
CreateIndexDataTableColumnExact(e, indexed_table, source_column_name, index_data_table, null_filtered_key_column) ==
  LET source_column ==
        FindColumnCaseSensitive(e.heap, indexed_table, source_column_name)
      source == e.heap[source_column]
  IN  IF source_column = NULL
      THEN Fail(e, Error("IndexRefsNonExistentColumn", "",
                         <<e.heap[e.heap[index_data_table].owner_index].name,
                           source_column_name>>))
      ELSE Bind(Alloc([e EXCEPT !.column_ids = @ + 1],
                      [NewColumn EXCEPT
                         !.name = source.name,
                         !.id = NextId(e.heap[index_data_table].name
                                         \o <<".">> \o source.name,
                                       e.column_ids),
                         !.source_column = source_column,
                         !.table = index_data_table,
                         !.nullable = IF null_filtered_key_column THEN FALSE
                                      ELSE source.nullable]),
                LAMBDA builder : AddNode(builder, builder.ret))

\* ret is the new column of the index data table.
CreateIndexDataTableColumn(e, indexed_table, source_column_name, index_data_table, null_filtered_key_column) ==
  LET source_column == FindColumn(e.heap, indexed_table, source_column_name)
      source == e.heap[source_column]
  IN  IF source_column = NULL
      THEN Fail(e, Error("IndexRefsNonExistentColumn", "",
                         <<e.heap[e.heap[index_data_table].owner_index].name,
                           source_column_name>>))
      ELSE Bind(Alloc([e EXCEPT !.column_ids = @ + 1],
                      [NewColumn EXCEPT
                         !.name = source.name,
                         !.id = NextId(e.heap[index_data_table].name
                                         \o <<".">> \o source.name,
                                       e.column_ids),
                         !.source_column = source_column,
                         !.table = index_data_table,
                         !.nullable = IF null_filtered_key_column THEN FALSE
                                      ELSE source.nullable]),
                LAMBDA builder : AddNode(builder, builder.ret))

\* The first loop of the primary key case: a column for each declared key.
RECURSIVE CreateDeclaredKeyColumns(_, _, _, _, _)
CreateDeclaredKeyColumns(e, key_part, index, indexed_table, builder) ==
  IF key_part = <<>> THEN e
  ELSE Bind(CreateIndexDataTableColumn(e, indexed_table,
                                       Head(key_part).key_column_name, builder,
                                       e.heap[index].null_filtered),
            LAMBDA column :
       CreateDeclaredKeyColumns(Push(column, builder, "columns", column.ret),
                                Tail(key_part), index, indexed_table, builder))

\* A second loop that does not skip the columns the data table has already.
RECURSIVE CreateIndexedTableKeyColumnsAll(_, _, _, _, _)
CreateIndexedTableKeyColumnsAll(e, primary_key, index, indexed_table, builder) ==
  IF primary_key = <<>> THEN e
  ELSE LET key_col == e.heap[Head(primary_key)]
           key_col_name == e.heap[key_col.column].name
           key_part == [key_column_name |-> key_col_name,
                        order |-> IF key_col.descending THEN "DESC" ELSE "ASC"]
       IN  IF FALSE
           THEN CreateIndexedTableKeyColumnsAll(e, Tail(primary_key), index,
                                             indexed_table, builder)
           ELSE Bind(CreateIndexDataTableColumn(e, indexed_table, key_col_name,
                                                builder,
                                                e.heap[index].null_filtered),
                     LAMBDA column :
                CreateIndexedTableKeyColumnsAll(
                  [Push(column, builder, "columns", column.ret)
                     EXCEPT !.data_table_pk = Append(@, key_part)],
                  Tail(primary_key), index, indexed_table, builder))

\* A second loop whose columns take the nullability of their source columns.
RECURSIVE CreateIndexedTableKeyColumnsUnfiltered(_, _, _, _, _)
CreateIndexedTableKeyColumnsUnfiltered(e, primary_key, index, indexed_table, builder) ==
  IF primary_key = <<>> THEN e
  ELSE LET key_col == e.heap[Head(primary_key)]
           key_col_name == e.heap[key_col.column].name
           key_part == [key_column_name |-> key_col_name,
                        order |-> IF key_col.descending THEN "DESC" ELSE "ASC"]
       IN  IF FindColumn(e.heap, builder, key_col_name) # NULL
           THEN CreateIndexedTableKeyColumnsUnfiltered(
                  e, Tail(primary_key), index, indexed_table, builder)
           ELSE Bind(CreateIndexDataTableColumn(e, indexed_table, key_col_name,
                                                builder, FALSE),
                     LAMBDA column :
                CreateIndexedTableKeyColumnsUnfiltered(
                  [Push(column, builder, "columns", column.ret)
                     EXCEPT !.data_table_pk = Append(@, key_part)],
                  Tail(primary_key), index, indexed_table, builder))

\* The second loop: a column and a key part for each primary key column of
\* the indexed table that the data table does not have yet.  The key parts
\* are collected in data_table_pk.
RECURSIVE CreateIndexedTableKeyColumns(_, _, _, _, _)
CreateIndexedTableKeyColumns(e, primary_key, index, indexed_table, builder) ==
  IF primary_key = <<>> THEN e
  ELSE LET key_col == e.heap[Head(primary_key)]
           key_col_name == e.heap[key_col.column].name
           key_part == [key_column_name |-> key_col_name,
                        order |-> IF key_col.descending THEN "DESC" ELSE "ASC"]
       IN  IF FindColumn(e.heap, builder, key_col_name) # NULL
           THEN CreateIndexedTableKeyColumns(e, Tail(primary_key), index,
                                             indexed_table, builder)
           ELSE Bind(CreateIndexDataTableColumn(e, indexed_table, key_col_name,
                                                builder,
                                                e.heap[index].null_filtered),
                     LAMBDA column :
                CreateIndexedTableKeyColumns(
                  [Push(column, builder, "columns", column.ret)
                     EXCEPT !.data_table_pk = Append(@, key_part)],
                  Tail(primary_key), index, indexed_table, builder))

\* A primary key case that hands the index the whole primary key of the data
\* table.
CreateIndexDataTablePrimaryKeyWhole(e, ddl_primary_key, index, indexed_table, builder) ==
  LET num_declared_keys == Len(ddl_primary_key.key_part)
  IN  Bind(CreateDeclaredKeyColumns(
             [e EXCEPT !.data_table_pk = ddl_primary_key.key_part],
             ddl_primary_key.key_part, index, indexed_table, builder),
           LAMBDA e1 :
      Bind(CreateIndexedTableKeyColumns(
             e1, e1.heap[indexed_table].primary_key, index, indexed_table,
             builder),
           LAMBDA e2 :
      Bind(CreatePrimaryKeyConstraint(
             e2, [key_part |-> e2.data_table_pk], builder),
           LAMBDA e3 :
      [e3 EXCEPT !.index_key_columns =
         @ \o e3.heap[builder].primary_key])))

\* The primary key case of the constraints of an index: the data table's
\* columns and primary key, and the index's key columns.
CreateIndexDataTablePrimaryKey(e, ddl_primary_key, index, indexed_table, builder) ==
  LET num_declared_keys == Len(ddl_primary_key.key_part)
  IN  Bind(CreateDeclaredKeyColumns(
             [e EXCEPT !.data_table_pk = ddl_primary_key.key_part],
             ddl_primary_key.key_part, index, indexed_table, builder),
           LAMBDA e1 :
      Bind(CreateIndexedTableKeyColumns(
             e1, e1.heap[indexed_table].primary_key, index, indexed_table,
             builder),
           LAMBDA e2 :
      Bind(CreatePrimaryKeyConstraint(
             e2, [key_part |-> e2.data_table_pk], builder),
           LAMBDA e3 :
      [e3 EXCEPT !.index_key_columns =
         @ \o SubSeq(e3.heap[builder].primary_key, 1, num_declared_keys)])))

\* A loop over the constraints that takes the interleave as it is declared.
RECURSIVE CreateIndexDataTableConstraintsAsDeclared(_, _, _, _, _)
CreateIndexDataTableConstraintsAsDeclared(e, constraints, index, indexed_table, builder) ==
  IF constraints = <<>> THEN e
  ELSE LET ddl_constraint == Head(constraints)
       IN  Bind(CASE ddl_constraint.kind = "PrimaryKey" ->
                       CreateIndexDataTablePrimaryKey(
                         e, ddl_constraint.primary_key, index, indexed_table,
                         builder)
                  [] ddl_constraint.kind = "Interleave" ->
                       CreateInterleaveConstraint(
                         e, ddl_constraint.interleave, builder)
                  [] OTHER -> Fail(e, Error("Internal", "", <<>>)),
                LAMBDA e1 :
                  CreateIndexDataTableConstraintsAsDeclared(e1, Tail(constraints), index,
                                                  indexed_table, builder))

RECURSIVE CreateIndexDataTableConstraints(_, _, _, _, _)
CreateIndexDataTableConstraints(e, constraints, index, indexed_table, builder) ==
  IF constraints = <<>> THEN e
  ELSE LET ddl_constraint == Head(constraints)
       IN  Bind(CASE ddl_constraint.kind = "PrimaryKey" ->
                       CreateIndexDataTablePrimaryKey(
                         e, ddl_constraint.primary_key, index, indexed_table,
                         builder)
                  [] ddl_constraint.kind = "Interleave" ->
                       CreateInterleaveConstraint(
                         e, [ddl_constraint.interleave
                               EXCEPT !.on_delete = "CASCADE"],
                         builder)
                  [] OTHER -> Fail(e, Error("Internal", "", <<>>)),
                LAMBDA e1 :
                  CreateIndexDataTableConstraints(e1, Tail(constraints), index,
                                                  indexed_table, builder))

\* A loop over the stored columns that treats them as the key columns are.
RECURSIVE CreateStoredColumnsFiltered(_, _, _, _)
CreateStoredColumnsFiltered(e, columns, indexed_table, builder) ==
  IF columns = <<>> THEN e
  ELSE LET ddl_column == Head(columns)
       IN  IF ~(ddl_column.has_stored
                  /\ ddl_column.stored = ddl_column.column_name)
           THEN Fail(e, Error("Internal", "", <<>>))
           ELSE Bind(CreateIndexDataTableColumn(
                       e, indexed_table, ddl_column.column_name, builder,
                       e.heap[e.heap[builder].owner_index].null_filtered),
                     LAMBDA column :
                CreateStoredColumnsFiltered(
                  [Push(column, builder, "columns", column.ret)
                     EXCEPT !.stored_columns = Append(@, column.ret)],
                  Tail(columns), indexed_table, builder))

RECURSIVE CreateStoredColumns(_, _, _, _)
CreateStoredColumns(e, columns, indexed_table, builder) ==
  IF columns = <<>> THEN e
  ELSE LET ddl_column == Head(columns)
       IN  IF ~(ddl_column.has_stored
                  /\ ddl_column.stored = ddl_column.column_name)
           THEN Fail(e, Error("Internal", "", <<>>))
           ELSE Bind(CreateIndexDataTableColumn(e, indexed_table,
                                                ddl_column.column_name, builder,
                                                FALSE),
                     LAMBDA column :
                CreateStoredColumns(
                  [Push(column, builder, "columns", column.ret)
                     EXCEPT !.stored_columns = Append(@, column.ret)],
                  Tail(columns), indexed_table, builder))

\* ret is the data table; index_key_columns and stored_columns are the two
\* output vectors.
CreateIndexDataTable(e, ddl_index, index, indexed_table) ==
  LET table_name == kIndexDataTablePrefix \o ddl_index.index_name
  IN  Bind(Alloc([e EXCEPT !.table_ids = @ + 1],
                 [NewTable(NextId(table_name, e.table_ids), table_name)
                    EXCEPT !.owner_index = index]),
           LAMBDA builder :
      Bind(CreateIndexDataTableConstraints(builder, ddl_index.constraints,
                                           index, indexed_table, builder.ret),
           LAMBDA e1 :
      Bind(CreateStoredColumns(e1, ddl_index.columns, indexed_table,
                               builder.ret),
           LAMBDA e2 :
      [e2 EXCEPT !.ret = builder.ret])))

\* A CreateIndex that adds the data table before the index.
CreateIndexDataTableFirst(e, ddl_index) ==
  LET indexed_table == FindTable(e.heap, e.latest, ddl_index.table_name)
  IN  IF indexed_table = NULL
      THEN Fail(e, Error("TableNotFound", "", <<ddl_index.table_name>>))
      ELSE IF num_index(e.heap, e.latest) >= kMaxIndexesPerDatabase
      THEN Fail(e, Error("TooManyIndicesPerDatabase", "",
                         <<ddl_index.index_name>>))
      ELSE
      Bind(AddName(e, "Index", ddl_index.index_name), LAMBDA e1 :
      Bind(Alloc(e1, [NewIndex EXCEPT
                        !.name = ddl_index.index_name,
                        !.unique = ddl_index.unique,
                        !.null_filtered = ddl_index.null_filtered]),
           LAMBDA builder :
      Bind(CreateIndexDataTable(
             [builder EXCEPT !.index_key_columns = <<>>,
                             !.stored_columns = <<>>],
             ddl_index, builder.ret, indexed_table),
           LAMBDA data_table :
      Bind(AlterNode(
             Set(Set(Set(data_table, builder.ret, "index_data_table",
                         data_table.ret),
                     builder.ret, "key_columns", data_table.index_key_columns),
                 builder.ret, "stored_columns", data_table.stored_columns),
             indexed_table),
           LAMBDA table_editor :
      AddNode(
        AddNode(
          [Set(Push(table_editor, table_editor.ret, "indexes", builder.ret),
               builder.ret, "indexed_table", table_editor.ret)
             EXCEPT !.actions =
                      Append(@, [kind |-> "BackfillIndex",
                                 index |-> builder.ret])],
          data_table.ret),
        builder.ret)))))

CreateIndex(e, ddl_index) ==
  LET indexed_table == FindTable(e.heap, e.latest, ddl_index.table_name)
  IN  IF indexed_table = NULL
      THEN Fail(e, Error("TableNotFound", "", <<ddl_index.table_name>>))
      ELSE IF num_index(e.heap, e.latest) >= kMaxIndexesPerDatabase
      THEN Fail(e, Error("TooManyIndicesPerDatabase", "",
                         <<ddl_index.index_name>>))
      ELSE
      Bind(AddName(e, "Index", ddl_index.index_name), LAMBDA e1 :
      Bind(Alloc(e1, [NewIndex EXCEPT
                        !.name = ddl_index.index_name,
                        !.unique = ddl_index.unique,
                        !.null_filtered = ddl_index.null_filtered]),
           LAMBDA builder :
      Bind(CreateIndexDataTable(
             [builder EXCEPT !.index_key_columns = <<>>,
                             !.stored_columns = <<>>],
             ddl_index, builder.ret, indexed_table),
           LAMBDA data_table :
      Bind(AlterNode(
             Set(Set(Set(data_table, builder.ret, "index_data_table",
                         data_table.ret),
                     builder.ret, "key_columns", data_table.index_key_columns),
                 builder.ret, "stored_columns", data_table.stored_columns),
             indexed_table),
           LAMBDA table_editor :
      AddNode(
        AddNode(
          [Set(Push(table_editor, table_editor.ret, "indexes", builder.ret),
               builder.ret, "indexed_table", table_editor.ret)
             EXCEPT !.actions =
                      Append(@, [kind |-> "BackfillIndex",
                                 index |-> builder.ret])],
          builder.ret),
        data_table.ret)))))

AlterInterleave(e, ddl_interleave, table) ==
  Bind(AlterNode(e, table), LAMBDA editor :
  Set(editor, editor.ret, "on_delete",
      IF ddl_interleave.on_delete = "CASCADE" THEN "CASCADE"
      ELSE "NO_ACTION"))

AddForeignKey(e, ddl_foreign_key, table) ==
  Bind(AlterNode(e, table), LAMBDA editor :
  CreateForeignKeyConstraint(editor, ddl_foreign_key, table))

DropConstraint(e, constraint_name, table) ==
  LET foreign_key == FindForeignKey(e.heap, table, constraint_name)
  IN  IF foreign_key # NULL THEN DropNode(e, foreign_key)
      ELSE Fail(e, Error("ConstraintNotFound", "",
                         <<constraint_name, e.heap[table].name>>))

\* The alter_column case of AlterTable.
AlterColumn(e, alter_column, table) ==
  LET column == FindColumn(e.heap, table, alter_column.column_name)
      not_found == Fail(e, Error("ColumnNotFound", "",
                                 <<e.heap[table].name,
                                   alter_column.column_name>>))
  IN  CASE alter_column.type = "ADD" ->
             Bind(CreateColumn(e, alter_column.column, table),
                  LAMBDA new_column :
             Bind(AlterNode(new_column, table), LAMBDA editor :
             Push(editor, editor.ret, "columns", new_column.ret)))
        [] alter_column.type = "ALTER" ->
             IF column = NULL THEN not_found
             ELSE Bind(AlterNode(e, column), LAMBDA editor :
                  SetColumnDefinition(editor, alter_column.column, editor.ret))
        [] alter_column.type = "DROP" ->
             IF column = NULL THEN not_found ELSE DropNode(e, column)
        [] OTHER -> Fail(e, Error("Internal", "", <<>>))

AlterTable(e, alter_table) ==
  LET table == FindTable(e.heap, e.latest, alter_table.table_name)
      alter_constraint == alter_table.alter_constraint
  IN  IF table = NULL
      THEN Fail(e, Error("TableNotFound", "", <<alter_table.table_name>>))
      ELSE IF ~(alter_table.has_alter_column
                  \/ alter_table.has_alter_constraint)
      THEN Fail(e, Error("Internal", "", <<>>))
      ELSE IF alter_table.has_alter_constraint
      THEN IF alter_constraint.constraint_kind = "Interleave"
                /\ alter_constraint.type = "ALTER"
           THEN AlterInterleave(e, alter_constraint.interleave, table)
           ELSE IF alter_constraint.constraint_kind = "ForeignKey"
                     /\ alter_constraint.type = "ADD"
           THEN AddForeignKey(e, alter_constraint.foreign_key, table)
           ELSE IF alter_constraint.constraint_kind = "None"
                     /\ alter_constraint.has_constraint_name
                     /\ alter_constraint.type = "DROP"
           THEN DropConstraint(e, alter_constraint.constraint_name, table)
           ELSE Fail(e, Error("Internal", "", <<>>))
      ELSE AlterColumn(e, alter_table.alter_column, table)

\* A DropTable that deletes the indexes on the table and the foreign keys
\* that refer to it along with the table.
DropTableCascade(e, drop_table) ==
  LET table == FindTable(e.heap, e.latest, drop_table.table_name)
  IN  IF table = NULL
      THEN Fail(e, Error("TableNotFound", "", <<drop_table.table_name>>))
      ELSE [DropNode(e, table) EXCEPT
              !.deleted = @ \cup Range(e.heap[table].indexes)
                            \cup Range(e.heap[table].referencing_foreign_keys)]

\* A DropTable that finds the table and does not record the delete.
DropTableUnrecorded(e, drop_table) ==
  LET table == FindTable(e.heap, e.latest, drop_table.table_name)
  IN  IF table = NULL
      THEN Fail(e, Error("TableNotFound", "", <<drop_table.table_name>>))
      ELSE e

DropTable(e, drop_table) ==
  LET table == FindTable(e.heap, e.latest, drop_table.table_name)
  IN  IF table = NULL
      THEN Fail(e, Error("TableNotFound", "", <<drop_table.table_name>>))
      ELSE DropNode(e, table)

\* A DropIndex that finds the index and does not record the delete.
DropIndexUnrecorded(e, drop_index) ==
  LET index == FindIndex(e.heap, e.latest, drop_index.index_name)
  IN  IF index = NULL
      THEN Fail(e, Error("IndexNotFound", "", <<drop_index.index_name>>))
      ELSE e

DropIndex(e, drop_index) ==
  LET index == FindIndex(e.heap, e.latest, drop_index.index_name)
  IN  IF index = NULL
      THEN Fail(e, Error("IndexNotFound", "", <<drop_index.index_name>>))
      ELSE DropNode(e, index)

\* ret is the graph of the new schema.
ApplyDDLStatement(e, statement) ==
  IF statement.kind = "Empty"
  THEN Fail(e, Error("EmptyDDLStatement", "", <<>>))
  ELSE Bind(CASE statement.kind = "CreateTable" -> CreateTable(e, statement)
              [] statement.kind = "CreateIndex" -> CreateIndex(e, statement)
              [] statement.kind = "AlterTable" -> AlterTable(e, statement)
              [] statement.kind = "DropTable" -> DropTable(e, statement)
              [] statement.kind = "DropIndex" -> DropIndex(e, statement)
              [] OTHER -> Fail(e, Error("Internal", "", <<>>)),
            LAMBDA e1 : CanonicalizeGraph(e1))

---------------------------------------------------------------------------
(* The DDL statements the model feeds the updater *)

Name(c) == <<c>>

ColumnDef(name, not_null) ==
  [column_name |-> name, has_column_type |-> TRUE, column_type |-> "INT64",
   constraints |-> IF not_null
                   THEN <<[kind |-> "NotNull", nullable |-> FALSE]>>
                   ELSE <<>>,
   has_options |-> FALSE, options |-> <<>>]

KeyPart(name, order) == [key_column_name |-> name, order |-> order]

PrimaryKey(parts) ==
  [kind |-> "PrimaryKey", primary_key |-> [key_part |-> parts]]

Interleave(parent, on_delete) ==
  [kind |-> "Interleave",
   interleave |-> [parent |-> parent, on_delete |-> on_delete]]

ForeignKeyDef(has_name, name, referencing, table, referenced) ==
  [has_constraint_name |-> has_name, constraint_name |-> name,
   referenced_table_name |-> table, referencing_column_name |-> referencing,
   referenced_column_name |-> referenced]

ForeignKey(has_name, name, referencing, table, referenced) ==
  [kind |-> "ForeignKey",
   foreign_key |-> ForeignKeyDef(has_name, name, referencing, table,
                                 referenced)]

CreateTableStmt(name, columns, constraints) ==
  [kind |-> "CreateTable", table_name |-> name, columns |-> columns,
   constraints |-> constraints]

CreateIndexStmt(name, table, unique, null_filtered, constraints, stored) ==
  [kind |-> "CreateIndex", index_name |-> name, table_name |-> table,
   unique |-> unique, null_filtered |-> null_filtered,
   constraints |-> constraints,
   columns |-> [i \in 1..Len(stored) |->
                  [column_name |-> stored[i], has_stored |-> TRUE,
                   stored |-> stored[i]]]]

NoColumn == [type |-> "NONE", column_name |-> <<>>,
             column |-> ColumnDef(<<>>, FALSE)]

NoConstraint ==
  [type |-> "NONE", constraint_kind |-> "None",
   has_constraint_name |-> FALSE, constraint_name |-> <<>>,
   interleave |-> [parent |-> <<>>, on_delete |-> "NO_ACTION"],
   foreign_key |-> ForeignKeyDef(FALSE, <<>>, <<>>, <<>>, <<>>)]

AlterColumnStmt(table, type, column_name, column) ==
  [kind |-> "AlterTable", table_name |-> table,
   has_alter_column |-> TRUE, has_alter_constraint |-> FALSE,
   alter_column |-> [type |-> type, column_name |-> column_name,
                     column |-> column],
   alter_constraint |-> NoConstraint]

AlterConstraintStmt(table, alter_constraint) ==
  [kind |-> "AlterTable", table_name |-> table,
   has_alter_column |-> FALSE, has_alter_constraint |-> TRUE,
   alter_column |-> NoColumn, alter_constraint |-> alter_constraint]

DropTableStmt(name) == [kind |-> "DropTable", table_name |-> name]

DropIndexStmt(name) == [kind |-> "DropIndex", index_name |-> name]

EmptyStmt == [kind |-> "Empty"]

TwoColumns == <<ColumnDef(Name("a"), TRUE), ColumnDef(Name("b"), FALSE)>>

CreateTableStatements ==
  { CreateTableStmt(Name("T"), TwoColumns,
                    <<PrimaryKey(<<KeyPart(Name("a"), "ASC")>>)>>),
    CreateTableStmt(Name("t"), TwoColumns,
                    <<PrimaryKey(<<KeyPart(Name("a"), "ASC")>>)>>),
    CreateTableStmt(Name("U"), TwoColumns,
                    <<PrimaryKey(<<KeyPart(Name("a"), "DESC")>>),
                      Interleave(Name("t"), "CASCADE")>>),
    CreateTableStmt(Name("U"), TwoColumns,
                    <<PrimaryKey(<<KeyPart(Name("a"), "ASC")>>),
                      ForeignKey(TRUE, Name("K"), <<Name("b")>>, Name("T"),
                                 <<Name("a")>>)>>),
    CreateTableStmt(Name("U"), TwoColumns,
                    <<PrimaryKey(<<KeyPart(Name("a"), "ASC")>>),
                      ForeignKey(FALSE, <<>>, <<Name("b")>>, Name("U"),
                                 <<Name("a")>>)>>),
    CreateTableStmt(Name("U"), TwoColumns,
                    <<PrimaryKey(<<KeyPart(Name("A"), "ASC")>>)>>),
    CreateTableStmt(Name("V"), TwoColumns,
                    <<PrimaryKey(<<KeyPart(Name("a"), "ASC")>>),
                      Interleave(Name("T"), "NO_ACTION")>>) }

CreateIndexStatements ==
  { CreateIndexStmt(Name("I"), Name("t"), FALSE, FALSE,
                    <<PrimaryKey(<<KeyPart(Name("b"), "ASC")>>)>>, <<>>),
    CreateIndexStmt(Name("T"), Name("T"), FALSE, FALSE,
                    <<PrimaryKey(<<KeyPart(Name("b"), "ASC")>>)>>, <<>>),
    CreateIndexStmt(Name("K"), Name("t"), TRUE, TRUE,
                    <<PrimaryKey(<<KeyPart(Name("b"), "DESC"),
                                   KeyPart(Name("a"), "ASC")>>)>>,
                    <<>>),
    CreateIndexStmt(Name("X"), Name("t"), FALSE, FALSE,
                    <<PrimaryKey(<<KeyPart(Name("B"), "ASC")>>)>>, <<>>),
    CreateIndexStmt(Name("X"), Name("t"), FALSE, TRUE,
                    <<PrimaryKey(<<KeyPart(Name("c"), "ASC")>>)>>,
                    <<Name("b")>>),
    CreateIndexStmt(Name("N"), Name("t"), FALSE, TRUE,
                    <<PrimaryKey(<<KeyPart(Name("b"), "ASC")>>)>>, <<>>),
    CreateIndexStmt(Name("J"), Name("U"), FALSE, FALSE,
                    <<PrimaryKey(<<KeyPart(Name("b"), "ASC")>>),
                      Interleave(Name("T"), "NO_ACTION")>>,
                    <<>>) }

AlterTableStatements ==
  { AlterColumnStmt(Name("T"), "ADD", <<>>, ColumnDef(Name("c"), FALSE)),
    AlterColumnStmt(Name("t"), "ALTER", Name("B"), ColumnDef(Name("b"), TRUE)),
    AlterColumnStmt(Name("t"), "ALTER", Name("a"),
                    [ColumnDef(Name("a"), FALSE) EXCEPT
                       !.column_type = "STRING",
                       !.constraints = <<[kind |-> "ColumnLength",
                                          max_length |-> 5]>>,
                       !.has_options = TRUE,
                       !.options = <<[name |-> kCommitTimestampOptionName,
                                      kind |-> "bool_value",
                                      bool_value |-> TRUE]>>]),
    AlterColumnStmt(Name("t"), "ALTER", Name("A"),
                    [ColumnDef(Name("A"), FALSE) EXCEPT
                       !.has_column_type = FALSE]),
    AlterColumnStmt(Name("T"), "DROP", Name("b"), ColumnDef(<<>>, FALSE)),
    AlterConstraintStmt(Name("T"),
      [NoConstraint EXCEPT
         !.type = "ADD", !.constraint_kind = "ForeignKey",
         !.foreign_key = ForeignKeyDef(TRUE, Name("F"), <<Name("b")>>,
                                       Name("T"), <<Name("a")>>)]),
    AlterConstraintStmt(Name("T"),
      [NoConstraint EXCEPT
         !.type = "ADD", !.constraint_kind = "ForeignKey",
         !.foreign_key = ForeignKeyDef(FALSE, <<>>, <<Name("B")>>,
                                       Name("T"), <<Name("a")>>)]),
    AlterConstraintStmt(Name("T"),
      [NoConstraint EXCEPT
         !.type = "ADD", !.constraint_kind = "ForeignKey",
         !.foreign_key = ForeignKeyDef(TRUE, Name("F"), <<Name("b")>>,
                                       Name("T"), <<Name("A")>>)]),
    AlterConstraintStmt(Name("U"),
      [NoConstraint EXCEPT
         !.type = "ALTER", !.constraint_kind = "Interleave",
         !.interleave = [parent |-> Name("T"), on_delete |-> "NO_ACTION"]]),
    AlterConstraintStmt(Name("U"),
      [NoConstraint EXCEPT
         !.type = "DROP", !.has_constraint_name = TRUE,
         !.constraint_name = Name("k")]) }

DropStatements ==
  { DropTableStmt(Name("t")), DropTableStmt(Name("U")),
    DropIndexStmt(Name("i")) }

Statements ==
  CreateTableStatements \cup CreateIndexStatements \cup AlterTableStatements
    \cup DropStatements \cup {EmptyStmt}

---------------------------------------------------------------------------
(* SchemaUpdater: the driver *)

VARIABLES
  heap,                    \* the node cells
  table_id_generator,      \* context.table_id_generator
  column_id_generator,     \* context.column_id_generator
  schema,                  \* the caller's schema, passed as existing_schema
  fed,                     \* the statements fed to the updater so far
  pc,                      \* where the current call stands
  op,                      \* the public operation called
  existing_schema,         \* the argument of the call
  num_statements,          \* statements.size()
  statements,              \* the statements of the batch read so far
  latest_schema_,          \* SchemaUpdaterImpl
  global_names_,           \* SchemaUpdaterImpl
  impl_intermediate_schemas_,  \* SchemaUpdaterImpl::intermediate_schemas_
  pending_work,            \* the local of ApplyDDLStatements
  pending_work_,           \* SchemaUpdater
  intermediate_schemas_,   \* SchemaUpdater
  num_successful,          \* the local of UpdateSchemaFromDDL
  backfill_status,         \* the local of UpdateSchemaFromDDL
  ran,                     \* the deferred actions run in this call, in order
  result                   \* what the last call returned

vars ==
  <<heap, table_id_generator, column_id_generator, schema, fed, pc, op,
    existing_schema, num_statements, statements, latest_schema_,
    global_names_, impl_intermediate_schemas_, pending_work, pending_work_,
    intermediate_schemas_, num_successful, backfill_status, ran, result>>

\* A pointer to a Schema: null, or the snapshot with the given graph.
NullSchema == [null |-> TRUE, graph |-> <<>>]

Schema(graph) == [null |-> FALSE, graph |-> graph]

EmptySchema == Schema(<<>>)

NoResult ==
  [kind |-> "none", status |-> OkStatus, schema |-> NullSchema,
   num_successful_statements |-> 0, backfill_status |-> OkStatus]

\* A StatusOr that holds an error.
ErrorResult(status) == [NoResult EXCEPT !.kind = "error", !.status = status]

\* A StatusOr<std::unique_ptr<const Schema>> that holds a value.
SchemaResult(s) == [NoResult EXCEPT !.kind = "schema", !.schema = s]

\* A StatusOr<SchemaChangeResult> that holds a value.
ChangeResult(n, s, status) ==
  [NoResult EXCEPT !.kind = "change", !.schema = s,
                   !.num_successful_statements = n,
                   !.backfill_status = status]

\* The schema the caller holds once a call has returned: the one an update
\* or a creation returned, if any.
Installed ==
  IF op \in {"Update", "Create"} /\ result.kind \in {"schema", "change"}
       /\ ~result.schema.null
  THEN result.schema
  ELSE schema

RECURSIVE AddGlobalNames(_, _, _)
AddGlobalNames(nodes, names, status) ==
  IF nodes = <<>> \/ status.code # "OK"
  THEN [names |-> names, status |-> status]
  ELSE LET node == Head(nodes)
           dup == \E n \in names : EqualsIgnoreCase(n, node.name)
       IN  IF ~HasGlobalName(node)
           THEN AddGlobalNames(Tail(nodes), names, status)
           ELSE IF dup
           THEN AddGlobalNames(Tail(nodes), names,
                               Error("DuplicateName", NameKind(node),
                                     <<node.name>>))
           ELSE AddGlobalNames(Tail(nodes), names \cup {node.name}, status)

\* An Init that leaves the registry empty.
InitNamesEmpty(graph) == [names |-> {}, status |-> OkStatus]

\* SchemaUpdaterImpl::Init: the registry of the global names of `graph`.
InitNames(graph) ==
  AddGlobalNames([i \in 1..Len(graph) |-> heap[graph[i]]], {}, OkStatus)

\* SchemaUpdaterImpl::Build for a call of `operation` on `existing` with a
\* batch of n statements.
Build(operation, existing, n) ==
  LET init == InitNames(existing.graph)
  IN  /\ pc \in {"idle", "done"}
      /\ n \in 0..(MaxStatements - fed)
      /\ schema' = Installed
      /\ op' = operation
      /\ existing_schema' = existing
      /\ num_statements' = n
      /\ statements' = <<>>
      /\ ran' = <<>>
      /\ num_successful' = 0
      /\ backfill_status' = OkStatus
      /\ pending_work' = <<>>
      /\ impl_intermediate_schemas_' = <<>>
      /\ IF init.status.code = "OK"
         THEN /\ pc' = "apply"
              /\ latest_schema_' = existing
              /\ global_names_' = init.names
              /\ result' = NoResult
         ELSE /\ pc' = "done"
              /\ latest_schema_' = NullSchema
              /\ global_names_' = {}
              /\ result' = ErrorResult(init.status)
      /\ UNCHANGED <<heap, table_id_generator, column_id_generator, fed,
                     pending_work_, intermediate_schemas_>>

\* ValidateSchemaFromDDL, up to the call of ApplyDDLStatements.
ValidateSchemaFromDDL ==
  \E n \in 0..MaxStatements, existing \in {NullSchema, Installed} :
    Build("Validate", IF existing.null THEN EmptySchema ELSE existing, n)

\* UpdateSchemaFromDDL, up to the call of ApplyDDLStatements.
UpdateSchemaFromDDL ==
  \E n \in 0..MaxStatements : Build("Update", Installed, n)

\* CreateSchemaFromDDL, up to the call of ApplyDDLStatements.
CreateSchemaFromDDL ==
  \E n \in 0..MaxStatements : Build("Create", EmptySchema, n)

\* An editor opened on the existing schema for every statement.
OpenEditorOnExisting ==
  [heap |-> heap, latest |-> existing_schema.graph, clones |-> <<>>,
   added |-> <<>>, deleted |-> {}, names |-> global_names_,
   table_ids |-> table_id_generator, column_ids |-> column_id_generator,
   actions |-> <<>>, status |-> OkStatus, ret |-> NULL,
   data_table_pk |-> <<>>, index_key_columns |-> <<>>,
   stored_columns |-> <<>>]

\* The editor ApplyDDLStatements makes for a statement, on latest_schema_.
OpenEditor ==
  [heap |-> heap, latest |-> latest_schema_.graph, clones |-> <<>>,
   added |-> <<>>, deleted |-> {}, names |-> global_names_,
   table_ids |-> table_id_generator, column_ids |-> column_id_generator,
   actions |-> <<>>, status |-> OkStatus, ret |-> NULL,
   data_table_pk |-> <<>>, index_key_columns |-> <<>>,
   stored_columns |-> <<>>]

\* One iteration of the loop of ApplyDDLStatements, and the return of the
\* caller when the statement fails.
ApplyDDLStatements ==
  /\ pc = "apply"
  /\ Len(statements) < num_statements
  /\ \E statement \in Statements :
       LET e == ApplyDDLStatement(OpenEditor, statement)
           new_schema == Schema(e.ret)
           statement_context ==
             [old_schema |-> latest_schema_, new_schema |-> new_schema,
              actions |-> e.actions]
       IN  /\ statements' = Append(statements, statement)
           /\ fed' = fed + 1
           /\ heap' = e.heap
           /\ table_id_generator' = e.table_ids
           /\ column_id_generator' = e.column_ids
           /\ IF Ok(e)
              THEN /\ latest_schema_' = new_schema
                   /\ impl_intermediate_schemas_' =
                        Append(impl_intermediate_schemas_, new_schema)
                   /\ pending_work' = Append(pending_work, statement_context)
                   /\ global_names_' = e.names
                   /\ UNCHANGED <<pc, result>>
              ELSE /\ latest_schema_' = NullSchema
                   /\ impl_intermediate_schemas_' = <<>>
                   /\ pending_work' = <<>>
                   /\ global_names_' = {}
                   /\ pc' = "done"
                   /\ result' = ErrorResult(e.status)
  /\ UNCHANGED <<schema, op, existing_schema, num_statements, pending_work_,
                 intermediate_schemas_, num_successful, backfill_status, ran>>

\* A ValidateSchemaFromDDL that returns the empty schema when no statement
\* was applied.
ValidatedSchemaOrEmpty(schemas) ==
  IF schemas # <<>> THEN schemas[Len(schemas)] ELSE EmptySchema

\* A ValidateSchemaFromDDL that takes begin() for rbegin().
ValidatedSchemaFirst(schemas) ==
  IF schemas # <<>> THEN schemas[1] ELSE NullSchema

\* The new_schema of ValidateSchemaFromDDL: *intermediate_schemas_.rbegin(),
\* or nullptr when there is none.
ValidatedSchema(schemas) ==
  IF schemas # <<>> THEN schemas[Len(schemas)] ELSE NullSchema

\* A ValidateSchemaFromDDL that keeps what the updater returned in the members.
ValidateSchemaFromDDLReturnKeeping ==
  /\ pc = "apply"
  /\ op = "Validate"
  /\ Len(statements) = num_statements
  /\ pending_work_' = pending_work
  /\ intermediate_schemas_' = impl_intermediate_schemas_
  /\ result' = SchemaResult(ValidatedSchema(impl_intermediate_schemas_))
  /\ pc' = "done"
  /\ latest_schema_' = NullSchema
  /\ global_names_' = {}
  /\ impl_intermediate_schemas_' = <<>>
  /\ pending_work' = <<>>
  /\ UNCHANGED <<heap, table_id_generator, column_id_generator, schema, fed,
                 op, existing_schema, num_statements, statements,
                 num_successful, backfill_status, ran>>

\* ValidateSchemaFromDDL, after ApplyDDLStatements has returned the pending
\* work.
ValidateSchemaFromDDLReturn ==
  /\ pc = "apply"
  /\ op = "Validate"
  /\ Len(statements) = num_statements
  /\ pending_work_' = <<>>
  /\ intermediate_schemas_' = <<>>
  /\ result' = SchemaResult(ValidatedSchema(impl_intermediate_schemas_))
  /\ pc' = "done"
  /\ latest_schema_' = NullSchema
  /\ global_names_' = {}
  /\ impl_intermediate_schemas_' = <<>>
  /\ pending_work' = <<>>
  /\ UNCHANGED <<heap, table_id_generator, column_id_generator, schema, fed,
                 op, existing_schema, num_statements, statements,
                 num_successful, backfill_status, ran>>

\* An UpdateSchemaFromDDL that goes on to the pending actions of the
\* statements applied so far, whether or not the batch has more.
UpdateSchemaFromDDLAppliedEarly ==
  /\ pc = "apply"
  /\ op \in {"Update", "Create"}
  /\ Len(statements) <= num_statements
  /\ pending_work_' = pending_work
  /\ intermediate_schemas_' = impl_intermediate_schemas_
  /\ impl_intermediate_schemas_' = <<>>
  /\ pending_work' = <<>>
  /\ num_successful' = 0
  /\ pc' = "run"
  /\ UNCHANGED <<heap, table_id_generator, column_id_generator, schema, fed,
                 op, existing_schema, num_statements, statements,
                 latest_schema_, global_names_, backfill_status, ran, result>>

\* UpdateSchemaFromDDL, after ApplyDDLStatements has returned the pending
\* work: the updater's results are moved into the members.
UpdateSchemaFromDDLApplied ==
  /\ pc = "apply"
  /\ op \in {"Update", "Create"}
  /\ Len(statements) = num_statements
  /\ pending_work_' = pending_work
  /\ intermediate_schemas_' = impl_intermediate_schemas_
  /\ impl_intermediate_schemas_' = <<>>
  /\ pending_work' = <<>>
  /\ num_successful' = 0
  /\ pc' = "run"
  /\ UNCHANGED <<heap, table_id_generator, column_id_generator, schema, fed,
                 op, existing_schema, num_statements, statements,
                 latest_schema_, global_names_, backfill_status, ran, result>>

\* SchemaValidationContext::RunSchemaChangeActions: the actions of one
\* statement, in order, up to the first that fails.  outcome[i] is the status
\* action i returns when it runs.
RECURSIVE RunSchemaChangeActions(_, _, _, _)
RunSchemaChangeActions(actions, outcome, i, log) ==
  IF i > Len(actions) THEN [status |-> OkStatus, log |-> log]
  ELSE LET entry == [action |-> actions[i], status |-> outcome[i]]
       IN  IF outcome[i].code # "OK"
           THEN [status |-> outcome[i], log |-> Append(log, entry)]
           ELSE RunSchemaChangeActions(actions, outcome, i + 1,
                                       Append(log, entry))

\* BackfillIndex: what it returns depends on the rows of the database.
BackfillOutcomes == {OkStatus, Error("BackfillFailed", "", <<>>)}

\* A RunPendingActions that notes a failure and goes on with the next
\* statement.
RunPendingActionsOn ==
  /\ pc = "run"
  /\ num_successful < Len(pending_work_)
  /\ LET pending_statement == pending_work_[num_successful + 1]
     IN  \E outcome \in [1..Len(pending_statement.actions) -> BackfillOutcomes] :
           LET run == RunSchemaChangeActions(pending_statement.actions,
                                             outcome, 1, <<>>)
           IN  /\ ran' = ran \o [i \in 1..Len(run.log) |->
                                   [statement |-> num_successful + 1,
                                    action |-> run.log[i].action,
                                    status |-> run.log[i].status]]
               /\ num_successful' = num_successful + 1
               /\ backfill_status' = IF run.status.code = "OK"
                                     THEN backfill_status ELSE run.status
               /\ UNCHANGED pc
  /\ UNCHANGED <<heap, table_id_generator, column_id_generator, schema, fed,
                 op, existing_schema, num_statements, statements,
                 latest_schema_, global_names_, impl_intermediate_schemas_,
                 pending_work, pending_work_, intermediate_schemas_, result>>

\* One iteration of the loop of RunPendingActions, and its return when an
\* action fails.
RunPendingActions ==
  /\ pc = "run"
  /\ num_successful < Len(pending_work_)
  /\ LET pending_statement == pending_work_[num_successful + 1]
     IN  \E outcome \in [1..Len(pending_statement.actions) -> BackfillOutcomes] :
           LET run == RunSchemaChangeActions(pending_statement.actions,
                                             outcome, 1, <<>>)
           IN  /\ ran' = ran \o [i \in 1..Len(run.log) |->
                                   [statement |-> num_successful + 1,
                                    action |-> run.log[i].action,
                                    status |-> run.log[i].status]]
               /\ IF run.status.code = "OK"
                  THEN /\ num_successful' = num_successful + 1
                       /\ UNCHANGED <<pc, backfill_status>>
                  ELSE /\ backfill_status' = run.status
                       /\ pc' = "result"
                       /\ UNCHANGED num_successful
  /\ UNCHANGED <<heap, table_id_generator, column_id_generator, schema, fed,
                 op, existing_schema, num_statements, statements,
                 latest_schema_, global_names_, impl_intermediate_schemas_,
                 pending_work, pending_work_, intermediate_schemas_, result>>

\* The return of RunPendingActions after the last pending statement.
RunPendingActionsReturn ==
  /\ pc = "run"
  /\ num_successful = Len(pending_work_)
  /\ backfill_status' = OkStatus
  /\ pc' = "result"
  /\ UNCHANGED <<heap, table_id_generator, column_id_generator, schema, fed,
                 op, existing_schema, num_statements, statements,
                 latest_schema_, global_names_, impl_intermediate_schemas_,
                 pending_work, pending_work_, intermediate_schemas_,
                 num_successful, ran, result>>

\* A CreateSchemaFromDDL that does not look at the backfill status.
CreateSchemaFromDDLReturnUnchecked(change) == SchemaResult(change.schema)

\* CreateSchemaFromDDL on the result of UpdateSchemaFromDDL.
CreateSchemaFromDDLReturn(change) ==
  IF change.backfill_status.code # "OK"
  THEN ErrorResult(change.backfill_status)
  ELSE SchemaResult(change.schema)

\* An UpdateSchemaFromDDL that takes the last snapshot whatever the actions
\* returned.
UpdatedSchemaLast(schemas, num) ==
  IF schemas # <<>> THEN schemas[Len(schemas)] ELSE NullSchema

\* The new_schema of UpdateSchemaFromDDL: the snapshot of the last statement
\* whose actions succeeded, or nullptr when there is none.
UpdatedSchema(schemas, num) ==
  IF num > 0 THEN schemas[num] ELSE NullSchema

\* UpdateSchemaFromDDL, after RunPendingActions: the snapshot of the last
\* successful statement is moved out of intermediate_schemas_.
UpdateSchemaFromDDLReturn ==
  /\ pc = "result"
  /\ LET new_schema == UpdatedSchema(intermediate_schemas_, num_successful)
         change == ChangeResult(num_successful, new_schema, backfill_status)
     IN  /\ intermediate_schemas_' =
              IF num_successful > 0
              THEN [intermediate_schemas_ EXCEPT ![num_successful] = NullSchema]
              ELSE intermediate_schemas_
         /\ result' = IF num_successful > Len(intermediate_schemas_)
                      THEN ErrorResult(Error("Internal", "", <<>>))
                      ELSE IF op = "Create"
                      THEN CreateSchemaFromDDLReturn(change)
                      ELSE change
  /\ pc' = "done"
  /\ latest_schema_' = NullSchema
  /\ global_names_' = {}
  /\ UNCHANGED <<heap, table_id_generator, column_id_generator, schema, fed,
                 op, existing_schema, num_statements, statements,
                 impl_intermediate_schemas_, pending_work, pending_work_,
                 num_successful, backfill_status, ran>>

Init ==
  /\ heap = <<>>
  /\ table_id_generator = 0
  /\ column_id_generator = 0
  /\ schema = EmptySchema
  /\ fed = 0
  /\ pc = "idle"
  /\ op = "none"
  /\ existing_schema = NullSchema
  /\ num_statements = 0
  /\ statements = <<>>
  /\ latest_schema_ = NullSchema
  /\ global_names_ = {}
  /\ impl_intermediate_schemas_ = <<>>
  /\ pending_work = <<>>
  /\ pending_work_ = <<>>
  /\ intermediate_schemas_ = <<>>
  /\ num_successful = 0
  /\ backfill_status = OkStatus
  /\ ran = <<>>
  /\ result = NoResult

Next ==
  \/ ValidateSchemaFromDDL
  \/ UpdateSchemaFromDDL
  \/ CreateSchemaFromDDL
  \/ ApplyDDLStatements
  \/ ValidateSchemaFromDDLReturn
  \/ UpdateSchemaFromDDLApplied
  \/ RunPendingActions
  \/ RunPendingActionsReturn
  \/ UpdateSchemaFromDDLReturn

Spec == Init /\ [][Next]_vars

\* The statements applied one after the other by an updater, each to the
\* snapshot of the one before, as in ApplyDDLStatements.
RECURSIVE ApplyAll(_, _)
ApplyAll(e, batch) ==
  IF batch = <<>> \/ ~Ok(e) THEN e
  ELSE LET e1 == ApplyDDLStatement(e, Head(batch))
       IN  ApplyAll([e1 EXCEPT !.latest = e1.ret, !.clones = <<>>,
                               !.added = <<>>, !.deleted = {},
                               !.actions = <<>>],
                    Tail(batch))

\* A database whose schema an earlier update made: table t with the indexes
\* I and K, as many indexes as a database may have.
IndexedSchema ==
  ApplyAll([heap |-> <<>>, latest |-> <<>>, clones |-> <<>>, added |-> <<>>,
            deleted |-> {}, names |-> {}, table_ids |-> 0, column_ids |-> 0,
            actions |-> <<>>, status |-> OkStatus, ret |-> <<>>,
            data_table_pk |-> <<>>, index_key_columns |-> <<>>,
            stored_columns |-> <<>>],
           <<CreateTableStmt(Name("t"), TwoColumns,
                             <<PrimaryKey(<<KeyPart(Name("a"), "ASC")>>)>>),
             CreateIndexStmt(Name("I"), Name("t"), FALSE, FALSE,
                             <<PrimaryKey(<<KeyPart(Name("b"), "ASC")>>)>>,
                             <<>>),
             CreateIndexStmt(Name("K"), Name("t"), TRUE, TRUE,
                             <<PrimaryKey(<<KeyPart(Name("b"), "DESC"),
                                            KeyPart(Name("a"), "ASC")>>)>>,
                             <<>>)>>)

\* A SchemaUpdater made for a database that has the schema IndexedSchema.
\* The calls on it are fed one statement less than MaxStatements.
InitIndexed ==
  /\ heap = IndexedSchema.heap
  /\ table_id_generator = IndexedSchema.table_ids
  /\ column_id_generator = IndexedSchema.column_ids
  /\ schema = Schema(IndexedSchema.latest)
  /\ fed = 1
  /\ pc = "idle"
  /\ op = "none"
  /\ existing_schema = NullSchema
  /\ num_statements = 0
  /\ statements = <<>>
  /\ latest_schema_ = NullSchema
  /\ global_names_ = {}
  /\ impl_intermediate_schemas_ = <<>>
  /\ pending_work = <<>>
  /\ pending_work_ = <<>>
  /\ intermediate_schemas_ = <<>>
  /\ num_successful = 0
  /\ backfill_status = OkStatus
  /\ ran = <<>>
  /\ result = NoResult

SpecIndexed == InitIndexed /\ [][Next]_vars

---------------------------------------------------------------------------
(* Properties of the driver *)

\* The entries of the log of run actions that failed.
Failed(log) == {i \in 1..Len(log) : log[i].status.code # "OK"}

\* The first failed entry of a log that has one.
FirstFailed(log) == CHOOSE i \in Failed(log) : \A j \in Failed(log) : i <= j

\* Every action of statement s of the pending work was run and returned OK.
Succeeded(s) ==
  LET mine == {i \in 1..Len(ran) : ran[i].statement = s}
  IN  /\ Cardinality(mine) = Len(pending_work_[s].actions)
      /\ \A i \in mine : ran[i].status.code = "OK"

\* C1: when UpdateSchemaFromDDL returns a result record for a batch of n
\* statements that all passed structural application, and k is the number of
\* leading statements whose deferred actions all returned OK, then
\* num_successful_statements = k, 0 <= k <= n, updated_schema is the snapshot
\* statement k produced (null when k = 0) and backfill_status is the status of
\* the first action that failed (OK when none did).
UpdateResult ==
  (pc = "done" /\ op = "Update" /\ result.kind = "change") =>
    LET n == num_statements
        k == Cardinality({i \in 1..n : \A j \in 1..i : Succeeded(j)})
    IN  /\ Len(pending_work_) = n
        /\ result.num_successful_statements = k
        /\ 0 <= k /\ k <= n
        /\ result.schema = IF k = 0 THEN NullSchema
                           ELSE pending_work_[k].new_schema
        /\ result.backfill_status =
             IF Failed(ran) = {} THEN OkStatus ELSE ran[FirstFailed(ran)].status
        /\ (Failed(ran) = {} => k = n)

\* An update of several statements that stopped at a failing action after at
\* least one statement had succeeded.
UpdateResultWitness ==
  /\ pc = "done" /\ op = "Update" /\ result.kind = "change"
  /\ result.num_successful_statements >= 1
  /\ result.num_successful_statements < num_statements
  /\ result.backfill_status.code # "OK"

\* C2: UpdateSchemaFromDDL runs no deferred action before every statement of
\* the batch has been applied; when a statement fails structurally the call
\* returns the error of that statement, no action has run, and no snapshot and
\* no result record is returned.
NoActionBeforeAllApplied ==
  [][(op' \in {"Update", "Create"}) =>
       /\ (ran' # <<>> =>
             /\ Len(statements') = num_statements'
             /\ Len(pending_work_') = num_statements'
             /\ pc' \in {"run", "result", "done"})
       /\ (pc = "apply" /\ pc' = "done" =>
             /\ result'.kind = "error"
             /\ result'.status =
                  ApplyDDLStatement(OpenEditor,
                                    statements'[Len(statements')]).status
             /\ result'.schema.null
             /\ result'.num_successful_statements = 0
             /\ ran' = <<>>)
       /\ (pc = "done" => ran' = <<>>)]_vars

\* An update whose third statement failed structurally after a CREATE INDEX
\* had enqueued an action.
NoActionBeforeAllAppliedWitness ==
  /\ pc = "done" /\ op = "Update" /\ result.kind = "error"
  /\ Len(statements) = 3
  /\ statements[2].kind = "CreateIndex"
  /\ ran = <<>>

\* C3: ValidateSchemaFromDDL returns a snapshot only if every statement of the
\* batch succeeded structurally, and then the one the last statement
\* produced; if statement i fails it returns the error of statement i and no
\* snapshot.
ValidateResult ==
  [][(op = "Validate" /\ pc = "apply" /\ pc' = "done") =>
       IF result'.kind = "schema"
       THEN /\ Len(statements) = num_statements
            /\ Len(pending_work) = num_statements
            /\ result'.schema =
                 IF num_statements = 0 THEN NullSchema
                 ELSE pending_work[num_statements].new_schema
       ELSE /\ result'.kind = "error"
            /\ Len(pending_work) = Len(statements)
            /\ Len(statements') = Len(statements) + 1
            /\ result'.status =
                 ApplyDDLStatement(OpenEditor,
                                   statements'[Len(statements')]).status
            /\ result'.status.code # "OK"
            /\ result'.schema.null]_vars

\* A validation of three statements that returned the third snapshot.
ValidateResultWitness ==
  /\ pc = "done" /\ op = "Validate" /\ result.kind = "schema"
  /\ num_statements = 3
  /\ ~result.schema.null

\* C4: ValidateSchemaFromDDL runs no deferred action; the pending work and the
\* snapshots of the call are dropped when it returns: the updater's locals
\* are empty, its members hold nothing they did not hold before the call, and
\* are empty when the call returns a snapshot.
ValidateRunsNothing ==
  [][(op' = "Validate") =>
       /\ ran' = <<>>
       /\ pc' \notin {"run", "result"}
       /\ pending_work_' \in {pending_work_, <<>>}
       /\ intermediate_schemas_' \in {intermediate_schemas_, <<>>}
       /\ (pc' = "done" =>
             /\ pending_work' = <<>>
             /\ impl_intermediate_schemas_' = <<>>)
       /\ (pc' = "done" /\ result'.kind = "schema" =>
             /\ pending_work_' = <<>>
             /\ intermediate_schemas_' = <<>>)]_vars

\* A validation of a batch with a CREATE INDEX that returned a snapshot.
ValidateRunsNothingWitness ==
  /\ pc = "done" /\ op = "Validate" /\ result.kind = "schema"
  /\ \E i \in 1..Len(statements) : statements[i].kind = "CreateIndex"
  /\ ~result.schema.null

\* C5: the deferred actions run in the order of their statements: the actions
\* run for a statement are a prefix of its actions, all of them when an action
\* of a later statement has run, and a failed action is the last one run.
ActionsInStatementOrder ==
  (op \in {"Update", "Create"}) =>
    /\ \A i \in 1..Len(ran) :
         /\ ran[i].statement \in 1..Len(pending_work_)
         /\ (i < Len(ran) =>
               /\ ran[i].status.code = "OK"
               /\ ran[i].statement <= ran[i + 1].statement)
    /\ \A s \in 1..Len(pending_work_) :
         LET Mine(r) == r.statement = s
             mine == SelectSeq(ran, Mine)
         IN  /\ Len(mine) <= Len(pending_work_[s].actions)
             /\ \A i \in 1..Len(mine) :
                  mine[i].action = pending_work_[s].actions[i]
             /\ ((\E i \in 1..Len(ran) : ran[i].statement > s) =>
                   Len(mine) = Len(pending_work_[s].actions))
    /\ (pc = "done" /\ ran # <<>> /\ Failed(ran) = {} =>
          \A s \in 1..Len(pending_work_) : Succeeded(s))

\* An update in which the action of one statement failed and the action of a
\* later statement was left.
ActionsInStatementOrderWitness ==
  /\ pc = "done" /\ op = "Update"
  /\ Failed(ran) # {}
  /\ \E s \in 1..Len(pending_work_) :
       /\ s > ran[Len(ran)].statement
       /\ pending_work_[s].actions # <<>>

\* C6: CreateSchemaFromDDL applies the batch to the empty schema; it returns a
\* snapshot only when every statement was applied and every deferred action
\* returned OK, and then the one of the last statement; when an action fails
\* it returns the status of that action and no snapshot.
CreateResult ==
  (pc = "done" /\ op = "Create") =>
    /\ existing_schema = EmptySchema
    /\ result.kind \in {"schema", "error"}
    /\ (result.kind = "schema" =>
          /\ Len(statements) = num_statements
          /\ Len(pending_work_) = num_statements
          /\ Failed(ran) = {}
          /\ \A s \in 1..num_statements : Succeeded(s)
          /\ (num_statements > 0 =>
                pending_work_[1].old_schema = EmptySchema)
          /\ result.schema =
               IF num_statements = 0 THEN NullSchema
               ELSE pending_work_[num_statements].new_schema)
    /\ (Failed(ran) # {} =>
          /\ result.kind = "error"
          /\ result.status = ran[FirstFailed(ran)].status
          /\ result.schema.null)

\* A creation whose second action failed after the first had succeeded.
CreateResultWitness ==
  /\ pc = "done" /\ op = "Create" /\ result.kind = "error"
  /\ Len(ran) = 2
  /\ ran[1].status.code = "OK"
  /\ ran[2].status.code # "OK"

---------------------------------------------------------------------------
(* Properties of the snapshots *)

\* The snapshots the updater, its caller and the results hold.
Snapshots ==
  ({schema, existing_schema, latest_schema_, result.schema}
     \cup Range(impl_intermediate_schemas_) \cup Range(intermediate_schemas_)
     \cup {pending_work[i].old_schema : i \in 1..Len(pending_work)}
     \cup {pending_work[i].new_schema : i \in 1..Len(pending_work)}
     \cup {pending_work_[i].old_schema : i \in 1..Len(pending_work_)}
     \cup {pending_work_[i].new_schema : i \in 1..Len(pending_work_)})
    \ {NullSchema}

\* C7: snapshots are immutable: no step of any call changes a node of the
\* existing snapshot or of a snapshot an earlier statement produced, and the
\* snapshots produced so far in a batch stay the ones they were.
SnapshotsImmutable ==
  [][/\ \A s \in Snapshots : \A h \in Range(s.graph) :
          h <= Len(heap') /\ heap'[h] = heap[h]
     /\ (pc = "apply" /\ pc' = "apply" =>
           /\ existing_schema' = existing_schema
           /\ SubSeq(impl_intermediate_schemas_', 1,
                     Len(impl_intermediate_schemas_))
                = impl_intermediate_schemas_)]_vars

\* An ALTER TABLE applied as the second or a later statement of a batch on a
\* schema that was not empty.
SnapshotsImmutableWitness ==
  /\ pc = "apply"
  /\ Len(impl_intermediate_schemas_) >= 2
  /\ Len(impl_intermediate_schemas_) = Len(statements)
  /\ statements[Len(statements)].kind = "AlterTable"
  /\ existing_schema.graph # <<>>

\* C8: the statements of a batch are applied in order as a chain: statement k
\* is applied to the snapshot of statement k - 1 (the existing schema for
\* k = 1), its context records that snapshot as old and its own as new, and
\* after k statements there are k snapshots and k contexts.
StatementChain ==
  [][/\ (pc' = "apply" =>
           /\ Len(pending_work') = Len(statements')
           /\ Len(impl_intermediate_schemas_') = Len(statements')
           /\ latest_schema_' = IF statements' = <<>> THEN existing_schema'
                                ELSE impl_intermediate_schemas_'[
                                       Len(statements')])
     /\ (pc = "apply" /\ pc' = "apply" =>
           LET k == Len(statements')
               context == pending_work'[k]
           IN  /\ k = Len(statements) + 1
               /\ SubSeq(statements', 1, k - 1) = statements
               /\ SubSeq(pending_work', 1, k - 1) = pending_work
               /\ context.old_schema =
                    IF k = 1 THEN existing_schema
                    ELSE impl_intermediate_schemas_[k - 1]
               /\ context.new_schema = impl_intermediate_schemas_'[k]
               /\ context.new_schema.graph =
                    ApplyDDLStatement(
                      [OpenEditor EXCEPT !.latest = context.old_schema.graph],
                      statements'[k]).ret)
     /\ (pc = "apply" /\ pc' = "run" =>
           /\ pending_work_' = pending_work
           /\ intermediate_schemas_' = impl_intermediate_schemas_)]_vars

\* Three statements applied, each to a snapshot other than the one before.
StatementChainWitness ==
  /\ pc = "apply"
  /\ Len(pending_work) = 3
  /\ pending_work[3].old_schema = pending_work[2].new_schema
  /\ pending_work[2].old_schema = pending_work[1].new_schema
  /\ pending_work[1].new_schema # pending_work[2].new_schema
  /\ pending_work[2].new_schema # pending_work[3].new_schema

\* C9: in every snapshot, every reference a node holds is to a node of the
\* same snapshot.
ReferencesResolve ==
  \A s \in Snapshots : \A h \in Range(s.graph) :
    RefsOf(heap[h]) \subseteq Range(s.graph)

\* A snapshot made by an ALTER TABLE on a schema with an index.
ReferencesResolveWitness ==
  /\ pc = "apply"
  /\ Len(impl_intermediate_schemas_) = 3
  /\ statements[2].kind = "CreateIndex"
  /\ statements[3].kind = "AlterTable"
  /\ \E h \in Range(latest_schema_.graph) : heap[h].kind = "Index"

\* C10: in every snapshot the names of the tables, the indexes and the
\* foreign keys with a declared name are pairwise distinct, compared without
\* regard to case.
GlobalNamesDistinct ==
  \A s \in Snapshots :
    LET named == {h \in Range(s.graph) :
                    \/ heap[h].kind \in {"Table", "Index"}
                    \/ heap[h].kind = "ForeignKey" /\ ~heap[h].generated}
    IN  \A g \in named, h \in named :
          g # h => ~EqualsIgnoreCase(heap[g].name, heap[h].name)

\* A snapshot with two tables and a named foreign key, made by a call on a
\* schema that was not empty.
GlobalNamesDistinctWitness ==
  /\ existing_schema.graph # <<>>
  /\ pc = "apply"
  /\ statements # <<>>
  /\ Len(impl_intermediate_schemas_) = Len(statements)
  /\ \E h \in Range(latest_schema_.graph) :
       heap[h].kind = "ForeignKey" /\ ~heap[h].generated

---------------------------------------------------------------------------
(* Properties of the statements *)

\* A step of ApplyDDLStatements, and the statement it applies.
Applying == pc = "apply" /\ Len(statements') = Len(statements) + 1

Applied == statements'[Len(statements')]

\* The step fails the statement: the call returns an error and no snapshot.
FailsStatement ==
  /\ pc' = "done"
  /\ result'.kind = "error"
  /\ result'.schema.null
  /\ impl_intermediate_schemas_' = <<>>
  /\ latest_schema_' = NullSchema

In(names, name) == \E n \in names : EqualsIgnoreCase(n, name)

\* The constraints of a CREATE TABLE that declare a named foreign key.
NamedForeignKeys(s) ==
  {i \in 1..Len(s.constraints) :
     /\ s.constraints[i].kind = "ForeignKey"
     /\ s.constraints[i].foreign_key.has_constraint_name}

IsAddForeignKey(s) ==
  /\ s.kind = "AlterTable"
  /\ s.has_alter_constraint
  /\ s.alter_constraint.constraint_kind = "ForeignKey"
  /\ s.alter_constraint.type = "ADD"

\* The global names a statement declares, each with its kind.
DeclaredNames(s) ==
  CASE s.kind = "CreateTable" ->
         {<<"Table", s.table_name>>}
           \cup {<<"Foreign Key", s.constraints[i].foreign_key.constraint_name>> :
                   i \in NamedForeignKeys(s)}
    [] s.kind = "CreateIndex" -> {<<"Index", s.index_name>>}
    [] IsAddForeignKey(s) /\ s.alter_constraint.foreign_key.has_constraint_name ->
         {<<"Foreign Key", s.alter_constraint.foreign_key.constraint_name>>}
    [] OTHER -> {}

\* The name of the table a foreign key refers to resolves, for a foreign key
\* of the table named table_name.
ReferencedResolves(ddl_foreign_key, table_name) ==
  \/ FindTableCaseSensitive(heap, latest_schema_.graph,
                            ddl_foreign_key.referenced_table_name) # NULL
  \/ ddl_foreign_key.referenced_table_name = table_name

\* A CREATE TABLE or CREATE INDEX cut off before its constraint i, applied.
AppliedBefore(s, i) ==
  ApplyDDLStatement(OpenEditor,
                    IF s.kind = "CreateIndex"
                    THEN [s EXCEPT !.constraints = SubSeq(@, 1, i - 1),
                                   !.columns = <<>>]
                    ELSE [s EXCEPT !.constraints = SubSeq(@, 1, i - 1)])

\* C11 as stated: a statement that declares a table, an index or a named
\* foreign key whose name is registered, without regard to case, fails with
\* DuplicateName for that name and the kind of the new object.
DuplicateNameAlways ==
  [][Applying =>
       LET clashes == {d \in DeclaredNames(Applied) : In(global_names_, d[2])}
       IN  clashes # {} =>
             /\ FailsStatement
             /\ \E d \in clashes :
                  result'.status = Error("DuplicateName", d[1], <<d[2]>>)]_vars

\* C11: tables, indexes and named foreign keys share one namespace without
\* regard to case.  A statement that declares a registered name fails and
\* produces no snapshot.  The error is DuplicateName with the kind of the new
\* object when the registration is reached: for a CREATE TABLE when the table
\* limit is not reached; for a CREATE INDEX when the indexed table exists and
\* the index limit is not reached; for a named foreign key when everything of
\* the statement before it succeeded and its referenced table resolves.
\* Otherwise the error is the one of the earlier check.
DuplicateNameReported ==
  [][Applying =>
       LET s == Applied
           latest == latest_schema_.graph
           Duplicate(kind, name) ==
             result'.status = Error("DuplicateName", kind, <<name>>)
       IN  /\ (\E d \in DeclaredNames(s) : In(global_names_, d[2]))
                => FailsStatement
           /\ (/\ s.kind = "CreateTable"
               /\ In(global_names_, s.table_name)
               /\ Len(tables(heap, latest)) < kMaxTablesPerDatabase)
                => Duplicate("Table", s.table_name)
           /\ (/\ s.kind = "CreateIndex"
               /\ In(global_names_, s.index_name)
               /\ FindTable(heap, latest, s.table_name) # NULL
               /\ num_index(heap, latest) < kMaxIndexesPerDatabase)
                => Duplicate("Index", s.index_name)
           /\ (/\ IsAddForeignKey(s)
               /\ s.alter_constraint.foreign_key.has_constraint_name
               /\ In(global_names_,
                     s.alter_constraint.foreign_key.constraint_name)
               /\ FindTable(heap, latest, s.table_name) # NULL
               /\ ReferencedResolves(
                     s.alter_constraint.foreign_key,
                     heap[FindTable(heap, latest, s.table_name)].name))
                => /\ FailsStatement
                   /\ Duplicate("Foreign Key",
                                s.alter_constraint.foreign_key.constraint_name)
           /\ (s.kind = "CreateTable" =>
                 \A i \in NamedForeignKeys(s) :
                   LET ddl_foreign_key == s.constraints[i].foreign_key
                       before == AppliedBefore(s, i)
                   IN  (/\ Ok(before)
                        /\ In(before.names, ddl_foreign_key.constraint_name)
                        /\ ReferencedResolves(ddl_foreign_key, s.table_name))
                         => /\ FailsStatement
                            /\ Duplicate("Foreign Key",
                                         ddl_foreign_key.constraint_name))]_vars

\* A CREATE TABLE with a named foreign key failed on the name of the foreign
\* key, which an earlier statement of the batch had registered.
DuplicateNameReportedWitness ==
  /\ pc = "done"
  /\ result.kind = "error"
  /\ result.status.code = "DuplicateName"
  /\ result.status.kind = "Foreign Key"
  /\ Len(statements) >= 2
  /\ statements[Len(statements)].kind = "CreateTable"
  /\ existing_schema.graph = <<>>

---------------------------------------------------------------------------
(* Properties of the snapshots: foreign keys, indexes, interleaving *)

\* The nodes of a kind in a snapshot.
NodesOf(s, kind) == {h \in Range(s.graph) : heap[h].kind = kind}

\* C12: in every snapshot each foreign key is listed in the foreign_keys of
\* its referencing table and in the referencing_foreign_keys of its referenced
\* table, and both are tables of that snapshot.
ForeignKeysListed ==
  \A s \in Snapshots : \A f \in NodesOf(s, "ForeignKey") :
    LET referencing == heap[f].referencing_table
        referenced == heap[f].referenced_table
    IN  /\ referencing \in NodesOf(s, "Table")
        /\ referenced \in NodesOf(s, "Table")
        /\ f \in Range(heap[referencing].foreign_keys)
        /\ f \in Range(heap[referenced].referencing_foreign_keys)

\* A snapshot with a foreign key declared in a CREATE TABLE and one added by
\* ALTER TABLE, one of them on its own table and one on another table.
ForeignKeysListedWitness ==
  /\ pc = "apply"
  /\ Len(statements) = 3
  /\ Len(impl_intermediate_schemas_) = 3
  /\ \E i, j \in 1..3 :
       /\ IsAddForeignKey(statements[i])
       /\ statements[j].kind = "CreateTable"
       /\ \E c \in 1..Len(statements[j].constraints) :
            statements[j].constraints[c].kind = "ForeignKey"
  /\ \E f, g \in NodesOf(latest_schema_, "ForeignKey") :
       /\ heap[f].referencing_table = heap[f].referenced_table
       /\ heap[g].referencing_table # heap[g].referenced_table

\* The index a CREATE INDEX statement made, in a snapshot.
IndexMadeBy(statement, s) == FindIndex(heap, s.graph, statement.index_name)

\* The number of key columns a CREATE INDEX statement declares.
NumDeclaredKeys(statement) ==
  LET IsPrimaryKey(c) == c.kind = "PrimaryKey"
      keys == SelectSeq(statement.constraints, IsPrimaryKey)
  IN  IF keys = <<>> THEN 0 ELSE Len(keys[1].primary_key.key_part)

\* The statements of the batch that are CREATE INDEX, each with a snapshot of
\* the batch made by it or after it, with no DROP INDEX of its name between.
IndexesOfBatch ==
  {p \in (1..Len(statements)) \X (1..Len(impl_intermediate_schemas_)) :
     /\ statements[p[1]].kind = "CreateIndex"
     /\ p[1] <= p[2]
     /\ \A d \in (p[1] + 1)..p[2] :
          ~(/\ statements[d].kind = "DropIndex"
            /\ EqualsIgnoreCase(statements[d].index_name,
                                statements[p[1]].index_name))}

\* C13: in every snapshot, for each index I the owner_index of its data table
\* is I and the key columns of I are the first entries of the primary key of
\* the data table, in order; their number is the number of key columns the
\* CREATE INDEX statement declared.
IndexKeyColumns ==
  /\ \A s \in Snapshots : \A i \in NodesOf(s, "Index") :
       LET data_table == heap[i].index_data_table
           n == Len(heap[i].key_columns)
       IN  /\ data_table \in NodesOf(s, "Table")
           /\ heap[data_table].owner_index = i
           /\ n <= Len(heap[data_table].primary_key)
           /\ heap[i].key_columns = SubSeq(heap[data_table].primary_key, 1, n)
  /\ \A p \in IndexesOfBatch :
       LET i == IndexMadeBy(statements[p[1]], impl_intermediate_schemas_[p[2]])
       IN  /\ i # NULL
           /\ Len(heap[i].key_columns) = NumDeclaredKeys(statements[p[1]])

\* A snapshot with an index of one declared key column and an index of two,
\* whose data tables have primary keys of two columns, made by the second and
\* the third statement of a batch.
IndexKeyColumnsWitness ==
  /\ pc = "apply"
  /\ Len(impl_intermediate_schemas_) = 3
  /\ statements[2].kind = "CreateIndex"
  /\ statements[3].kind = "CreateIndex"
  /\ \E i, j \in NodesOf(latest_schema_, "Index") :
       /\ Len(heap[i].key_columns) = 1
       /\ Len(heap[j].key_columns) = 2
       /\ Len(heap[heap[i].index_data_table].primary_key) = 2
       /\ Len(heap[heap[j].index_data_table].primary_key) = 2

\* The key parts of a primary key: the name of each key column's column and
\* its order.
KeyPartsOf(primary_key) ==
  [i \in 1..Len(primary_key) |->
     KeyPart(heap[heap[primary_key[i]].column].name,
             IF heap[primary_key[i]].descending THEN "DESC" ELSE "ASC")]

\* The key parts a CREATE INDEX statement declares.
DeclaredKeys(statement) ==
  LET IsPrimaryKey(c) == c.kind = "PrimaryKey"
      keys == SelectSeq(statement.constraints, IsPrimaryKey)
  IN  IF keys = <<>> THEN <<>> ELSE keys[1].primary_key.key_part

DeclaredInterleave(statement) ==
  LET IsInterleave(c) == c.kind = "Interleave"
      found == SelectSeq(statement.constraints, IsInterleave)
  IN  [i \in 1..Len(found) |-> found[i].interleave]

\* The data table of the index that statement k of the batch made, in the
\* snapshot it made.
DataTableMadeBy(k) ==
  heap[IndexMadeBy(statements[k],
                   impl_intermediate_schemas_[k])].index_data_table

---------------------------------------------------------------------------
(* Properties of the limits *)

\* Every snapshot held after the step is within the limits.
WithinLimits ==
  \A s \in Snapshots' :
    /\ Len(tables(heap', s.graph)) <= kMaxTablesPerDatabase
    /\ num_index(heap', s.graph) <= kMaxIndexesPerDatabase

\* The step fails a CREATE TABLE for the number of tables.
TooManyTables ==
  /\ FailsStatement
  /\ result'.status =
       Error("TooManyTablesPerDatabase", "", <<Applied.table_name>>)

\* The step fails a CREATE INDEX for the number of indexes.
TooManyIndices ==
  /\ FailsStatement
  /\ result'.status =
       Error("TooManyIndicesPerDatabase", "", <<Applied.index_name>>)

\* C16 as stated: every snapshot made from one within the limits is within
\* the limits; a CREATE TABLE on a snapshot with kMaxTablesPerDatabase tables
\* fails with TooManyTablesPerDatabase and a CREATE INDEX on a snapshot with
\* kMaxIndexesPerDatabase indexes fails with TooManyIndicesPerDatabase.
LimitsAlwaysReported ==
  [][/\ WithinLimits
     /\ Applying =>
          /\ (/\ Applied.kind = "CreateTable"
              /\ Len(tables(heap, latest_schema_.graph))
                   >= kMaxTablesPerDatabase) => TooManyTables
          /\ (/\ Applied.kind = "CreateIndex"
              /\ num_index(heap, latest_schema_.graph)
                   >= kMaxIndexesPerDatabase) => TooManyIndices]_vars

\* C16: every snapshot made from one within the limits is within the limits;
\* a CREATE TABLE on a snapshot with kMaxTablesPerDatabase tables fails with
\* TooManyTablesPerDatabase; a CREATE INDEX on a snapshot with
\* kMaxIndexesPerDatabase indexes fails, with TooManyIndicesPerDatabase when
\* the table it names exists and with TableNotFound when it does not.
LimitsEnforced ==
  [][/\ WithinLimits
     /\ Applying =>
          /\ (/\ Applied.kind = "CreateTable"
              /\ Len(tables(heap, latest_schema_.graph))
                   >= kMaxTablesPerDatabase) => TooManyTables
          /\ (/\ Applied.kind = "CreateIndex"
              /\ num_index(heap, latest_schema_.graph)
                   >= kMaxIndexesPerDatabase) =>
                IF FindTable(heap, latest_schema_.graph, Applied.table_name)
                     # NULL
                THEN TooManyIndices
                ELSE /\ FailsStatement
                     /\ result'.status =
                          Error("TableNotFound", "", <<Applied.table_name>>)]_vars

\* On a database with one table and kMaxIndexesPerDatabase indexes, a batch
\* made a second table and failed to make a third, of a name not in use.
LimitsEnforcedWitness ==
  /\ pc = "done"
  /\ result.kind = "error"
  /\ result.status = Error("TooManyTablesPerDatabase", "", <<Name("V")>>)
  /\ Len(statements) = 2
  /\ statements[1].kind = "CreateTable"
  /\ num_index(heap, existing_schema.graph) = kMaxIndexesPerDatabase

---------------------------------------------------------------------------
(* Properties of CREATE TABLE and DROP TABLE *)

\* The structure of a snapshot: its nodes in order, every reference replaced
\* by the position in the snapshot of the node referred to, without the IDs.
Structure(s) ==
  LET position == [h \in 1..Len(heap) |->
                     IF h \in Range(s.graph) THEN IndexOf(s.graph, h) ELSE 0]
      WithoutId(node) ==
        IF node.kind \in {"Table", "Column"} THEN [node EXCEPT !.id = <<>>]
        ELSE node
  IN  [i \in 1..Len(s.graph) |->
         WithoutId(Rewrite(heap[s.graph[i]], {}, position))]

\* A CREATE TABLE that declares no interleave and no foreign key.
IsPlainCreateTable(statement) ==
  /\ statement.kind = "CreateTable"
  /\ \A c \in 1..Len(statement.constraints) :
       statement.constraints[c].kind = "PrimaryKey"

\* Statement k of the batch is a plain CREATE TABLE of a table that was not
\* there, and statement k + 1 is the DROP TABLE of that table; both were
\* applied.
CreatedThenDropped(k) ==
  /\ k + 1 <= Len(impl_intermediate_schemas_)
  /\ IsPlainCreateTable(statements[k])
  /\ statements[k + 1].kind = "DropTable"
  /\ EqualsIgnoreCase(statements[k + 1].table_name, statements[k].table_name)

\* C17: CREATE TABLE T, for a table T that is not in the snapshot S and
\* declares no interleave and no foreign key, followed by DROP TABLE T gives
\* a snapshot of the structure of S: no node of T remains.
CreateThenDrop ==
  \A k \in 1..Len(statements) :
    CreatedThenDropped(k) =>
      /\ Structure(impl_intermediate_schemas_[k + 1])
           = Structure(pending_work[k].old_schema)
      /\ Structure(impl_intermediate_schemas_[k])
           # Structure(pending_work[k].old_schema)

\* A table was created in a schema that has a table with a foreign key, and
\* dropped by the next statement.
CreateThenDropWitness ==
  /\ pc = "apply"
  /\ Len(impl_intermediate_schemas_) = 3
  /\ CreatedThenDropped(2)
  /\ NodesOf(impl_intermediate_schemas_[1], "ForeignKey") # {}

---------------------------------------------------------------------------
(* Properties of interleaving *)

\* The names of the nodes of a list.
NamesOf(list) == [i \in 1..Len(list) |-> heap[list[i]].name]

\* C18: in every snapshot each table with a parent is among the children of
\* its parent, a table of the same snapshot.  After CREATE TABLE C ...
\* INTERLEAVE IN PARENT P the parent of C is P, the children of P are the
\* ones it had and C, and the on_delete action of C is CASCADE when the
\* statement says ON DELETE CASCADE and NO_ACTION when it does not.
InterleaveLinked ==
  /\ \A s \in Snapshots : \A c \in NodesOf(s, "Table") :
       heap[c].parent # NULL =>
         /\ heap[c].parent \in NodesOf(s, "Table")
         /\ c \in Range(heap[heap[c].parent].children)
  /\ \A k \in 1..Len(impl_intermediate_schemas_) :
       (/\ statements[k].kind = "CreateTable"
        /\ DeclaredInterleave(statements[k]) # <<>>) =>
         LET old == pending_work[k].old_schema
             new == impl_intermediate_schemas_[k]
             interleave == DeclaredInterleave(statements[k])[1]
             child == FindTable(heap, new.graph, statements[k].table_name)
             parent == FindTable(heap, new.graph, interleave.parent)
             parent_before == FindTable(heap, old.graph, interleave.parent)
         IN  /\ child # NULL /\ parent # NULL /\ parent_before # NULL
             /\ heap[child].parent = parent
             /\ heap[parent].name = heap[parent_before].name
             /\ Len(heap[parent].children)
                  = Len(heap[parent_before].children) + 1
             /\ NamesOf(heap[parent].children)
                  = Append(NamesOf(heap[parent_before].children),
                           statements[k].table_name)
             /\ heap[parent].children[Len(heap[parent].children)] = child
             /\ heap[child].on_delete =
                  IF interleave.on_delete = "CASCADE" THEN "CASCADE"
                  ELSE "NO_ACTION"

\* A table was created with INTERLEAVE IN PARENT and no ON DELETE CASCADE in
\* a parent found by a name in another case.
InterleaveLinkedWitness ==
  /\ pc = "apply"
  /\ Len(impl_intermediate_schemas_) = Len(statements)
  /\ \E k \in 1..Len(statements) :
       /\ statements[k].kind = "CreateTable"
       /\ DeclaredInterleave(statements[k]) # <<>>
       /\ DeclaredInterleave(statements[k])[1].on_delete = "NO_ACTION"
       /\ FindTableCaseSensitive(heap, impl_intermediate_schemas_[k].graph,
                                 DeclaredInterleave(statements[k])[1].parent)
            = NULL

\* The constraints of a CREATE TABLE or CREATE INDEX that declare an
\* interleave whose parent name is the name of no table of the latest
\* snapshot, where everything of the statement before them succeeds.
MissingParents(s) ==
  IF s.kind \notin {"CreateTable", "CreateIndex"} THEN {}
  ELSE {i \in 1..Len(s.constraints) :
          /\ s.constraints[i].kind = "Interleave"
          /\ FindTable(heap, latest_schema_.graph,
                       s.constraints[i].interleave.parent) = NULL
          /\ Ok(AppliedBefore(s, i))}

---------------------------------------------------------------------------
(* Properties of foreign keys *)

\* The foreign keys a statement creates, when their creation is reached: for
\* each the definition, the name of the referencing table, and the place of
\* the foreign key among the ones the statement adds to that table.
ForeignKeysReached(s) ==
  IF s.kind = "CreateTable"
  THEN {[ddl |-> s.constraints[i].foreign_key,
         table_name |-> s.table_name,
         place |-> Cardinality({j \in 1..i :
                                  s.constraints[j].kind = "ForeignKey"}),
         before |-> 0] :
          i \in {c \in 1..Len(s.constraints) :
                   /\ s.constraints[c].kind = "ForeignKey"
                   /\ Ok(AppliedBefore(s, c))}}
  ELSE IF IsAddForeignKey(s)
            /\ FindTable(heap, latest_schema_.graph, s.table_name) # NULL
  THEN LET table == FindTable(heap, latest_schema_.graph, s.table_name)
       IN  {[ddl |-> s.alter_constraint.foreign_key,
             table_name |-> heap[table].name,
             place |-> 1,
             before |-> Len(heap[table].foreign_keys)]}
  ELSE {}

\* C20: the creation of a foreign key resolves the referenced table by its
\* exact name in the latest snapshot.  When there is a table of that name the
\* foreign key refers to it.  When there is none, the foreign key refers to
\* its own table if the name is exactly the name of that table, and otherwise
\* the statement fails with TableNotFound and there is no snapshot.
ReferencedTableResolved ==
  [][Applying =>
       \A f \in ForeignKeysReached(Applied) :
         LET name == f.ddl.referenced_table_name
             found == FindTableCaseSensitive(heap, latest_schema_.graph, name)
             new == latest_schema_'.graph
             referencing == FindTableCaseSensitive(heap', new, f.table_name)
             foreign_key ==
               heap'[referencing].foreign_keys[f.before + f.place]
             referenced == heap'[foreign_key].referenced_table
         IN  IF found = NULL /\ name # f.table_name
             THEN /\ FailsStatement
                  /\ result'.status = Error("TableNotFound", "", <<name>>)
             ELSE pc' = "apply" =>
                    /\ referencing # NULL
                    /\ heap'[foreign_key].referencing_table = referencing
                    /\ referenced = FindTableCaseSensitive(heap', new, name)
                    /\ heap'[referenced].name = name
                    /\ (found = NULL => referenced = referencing)]_vars

\* A CREATE TABLE with a foreign key to T failed with TableNotFound in a
\* schema that has the table t.
ReferencedTableResolvedWitness ==
  /\ pc = "done"
  /\ result.kind = "error"
  /\ result.status = Error("TableNotFound", "", <<Name("T")>>)
  /\ Len(statements) >= 2
  /\ statements[Len(statements)].kind = "CreateTable"
  /\ statements[1].kind = "CreateTable"
  /\ statements[1].table_name = Name("t")

---------------------------------------------------------------------------
(* Properties of name resolution *)

\* The elements of a sequence of names that are in none of the given names,
\* compared exactly.
NotAmong(names, given) ==
  LET Missing(n) == n \notin given
  IN  SelectSeq(names, Missing)

\* The names of the columns of a table of the heap.
ColumnNamesOf(table) == {heap[c].name : c \in Range(heap[table].columns)}

\* The names of the columns a CREATE TABLE declares.
DeclaredColumnNames(s) == {s.columns[c].column_name : c \in 1..Len(s.columns)}

\* The names of the columns of the table a foreign key of the statement s
\* refers to by the name `name`, where the foreign key is one of the table
\* named table_name: the table of exactly that name in the latest snapshot,
\* or else the table of the foreign key itself.
ReferencedColumnNames(s, name, table_name) ==
  LET found == FindTableCaseSensitive(heap, latest_schema_.graph, name)
      own == FindTableCaseSensitive(heap, latest_schema_.graph, table_name)
  IN  IF found # NULL THEN ColumnNamesOf(found)
      ELSE IF s.kind = "CreateTable" THEN DeclaredColumnNames(s)
      ELSE ColumnNamesOf(own)

\* The primary key clauses and the foreign keys of a statement are resolved
\* by exact column name.
KeyColumnsResolvedExactly ==
  LET s == Applied
  IN  /\ s.kind = "CreateTable" =>
           \A i \in 1..Len(s.constraints) :
             (s.constraints[i].kind = "PrimaryKey" /\ Ok(AppliedBefore(s, i)))
               => LET key_part == s.constraints[i].primary_key.key_part
                      missing ==
                        NotAmong([k \in 1..Len(key_part) |->
                                    key_part[k].key_column_name],
                                 DeclaredColumnNames(s))
                  IN  IF missing = <<>> THEN Ok(AppliedBefore(s, i + 1))
                      ELSE /\ FailsStatement
                           /\ result'.status =
                                Error("NonExistentKeyColumn", "Table",
                                      <<s.table_name, missing[1]>>)
      /\ \A f \in ForeignKeysReached(s) :
           LET name == f.ddl.referenced_table_name
               referencing ==
                 IF s.kind = "CreateTable" THEN DeclaredColumnNames(s)
                 ELSE ColumnNamesOf(FindTableCaseSensitive(
                        heap, latest_schema_.graph, f.table_name))
               missing ==
                 NotAmong(f.ddl.referencing_column_name, referencing)
                   \o NotAmong(f.ddl.referenced_column_name,
                               ReferencedColumnNames(s, name, f.table_name))
           IN  (/\ ReferencedResolves(f.ddl, f.table_name)
                /\ ~(f.ddl.has_constraint_name
                       /\ In(global_names_ \cup {f.table_name},
                             f.ddl.constraint_name)))
                 => IF missing = <<>>
                    THEN result'.status.code # "ForeignKeyColumnNotFound"
                    ELSE /\ FailsStatement
                         /\ result'.status.code = "ForeignKeyColumnNotFound"
                         /\ result'.status.names[1] = missing[1]

\* The names a statement resolves to a table with FindTable: the table of a
\* CREATE INDEX, an ALTER TABLE or a DROP TABLE, and the parent of an
\* interleave.
TableNamesOf(s) ==
  (IF s.kind \in {"CreateIndex", "AlterTable", "DropTable"}
   THEN {s.table_name} ELSE {})
    \cup (IF s.kind \in {"CreateTable", "CreateIndex"}
          THEN {s.constraints[i].interleave.parent :
                  i \in {c \in 1..Len(s.constraints) :
                           s.constraints[c].kind = "Interleave"}}
          ELSE {})

\* The names of the tables the foreign keys of a statement refer to.
ReferencedTableNamesOf(s) ==
  IF s.kind = "CreateTable"
  THEN {s.constraints[i].foreign_key.referenced_table_name :
          i \in {c \in 1..Len(s.constraints) :
                   s.constraints[c].kind = "ForeignKey"}}
  ELSE IF IsAddForeignKey(s)
  THEN {s.alter_constraint.foreign_key.referenced_table_name}
  ELSE {}

\* A table of the latest snapshot has the name, without regard to case.
KnownTable(name) ==
  \E h \in Range(tables(heap, latest_schema_.graph)) :
    EqualsIgnoreCase(heap[h].name, name)

KnownTableExactly(name) ==
  \E h \in Range(tables(heap, latest_schema_.graph)) : heap[h].name = name

KnownIndex(name) ==
  \E h \in NodesOf(latest_schema_, "Index") :
    EqualsIgnoreCase(heap[h].name, name)

\* The names of tables and indexes in a statement are resolved without regard
\* to case: a name that a table or an index has, in whatever case, is not
\* reported as not found, and the table of a CREATE INDEX, an ALTER TABLE or
\* a DROP TABLE and the index of a DROP INDEX that no table or index has is.
\* With exact_foreign_keys the referenced table of a foreign key is left out;
\* without, it is held to the same rule.
ObjectNamesResolved(exact_foreign_keys) ==
  LET s == Applied
      NotFound(n) == Error("TableNotFound", "", <<n>>)
  IN  /\ \A n \in TableNamesOf(s) :
           (/\ KnownTable(n)
            /\ ~(n \in ReferencedTableNamesOf(s) /\ exact_foreign_keys
                   /\ ~KnownTableExactly(n)))
             => result'.status # NotFound(n)
      /\ ~exact_foreign_keys =>
           \A n \in ReferencedTableNamesOf(s) :
             KnownTable(n) => result'.status # NotFound(n)
      /\ (s.kind \in {"CreateIndex", "AlterTable", "DropTable"}
            /\ ~KnownTable(s.table_name))
           => FailsStatement /\ result'.status = NotFound(s.table_name)
      /\ s.kind = "DropIndex" =>
           IF KnownIndex(s.index_name) THEN pc' = "apply"
           ELSE /\ FailsStatement
                /\ result'.status =
                     Error("IndexNotFound", "", <<s.index_name>>)

\* C21 as stated: column names in primary key clauses and foreign key column
\* lists are resolved by exact name, and every table and index name in a
\* statement without regard to case.
NamesResolvedAsStated ==
  [][Applying => KeyColumnsResolvedExactly /\ ObjectNamesResolved(FALSE)]_vars

\* C21: a column name in the PRIMARY KEY clause of a CREATE TABLE or in the
\* referencing or referenced column list of a foreign key that is not exactly
\* the name of a column of the table fails the statement, with
\* NonExistentKeyColumn for the primary key and ForeignKeyColumnNotFound for
\* the foreign key, when the clause is reached; table and index names are
\* resolved without regard to case, except the referenced table of a foreign
\* key, which is resolved by its exact name.
NamesResolved ==
  [][Applying => KeyColumnsResolvedExactly /\ ObjectNamesResolved(TRUE)]_vars

\* An ALTER TABLE ADD FOREIGN KEY failed on the referenced column A of a table
\* that has the column a.
NamesResolvedWitness ==
  /\ pc = "done"
  /\ result.kind = "error"
  /\ result.status.code = "ForeignKeyColumnNotFound"
  /\ result.status.names[1] = Name("A")
  /\ \E h \in Range(existing_schema.graph) :
       heap[h].kind = "Column" /\ heap[h].name = Name("a")

---------------------------------------------------------------------------
(* Properties of CREATE INDEX: the declared key columns *)

\* The primary key clauses of a CREATE INDEX that are reached: the indexed
\* table is there, the index may be added, its name is new, and everything of
\* the statement before the clause succeeds.
KeyClausesReached(s) ==
  IF s.kind # "CreateIndex" THEN {}
  ELSE {i \in 1..Len(s.constraints) :
          /\ s.constraints[i].kind = "PrimaryKey"
          /\ Ok(AppliedBefore(s, i))}

\* The names of the key columns a primary key clause declares.
KeyNames(ddl_primary_key) ==
  [k \in 1..Len(ddl_primary_key.key_part) |->
     ddl_primary_key.key_part[k].key_column_name]

\* The names of a sequence that no column of the table has, in whatever case.
NotColumnsOf(names, table) ==
  LET Unknown(n) == \A c \in Range(heap[table].columns) :
                      ~EqualsIgnoreCase(heap[c].name, n)
  IN  SelectSeq(names, Unknown)

\* C22 as stated: a declared key column of a CREATE INDEX whose name is not
\* exactly the name of a column of the indexed table fails the statement with
\* IndexRefsNonExistentColumn for the index and that name.
IndexKeysFoundExactly ==
  [][Applying =>
       \A i \in KeyClausesReached(Applied) :
         LET s == Applied
             indexed_table ==
               FindTable(heap, latest_schema_.graph, s.table_name)
             missing == NotAmong(KeyNames(s.constraints[i].primary_key),
                                 ColumnNamesOf(indexed_table))
         IN  missing # <<>> =>
               /\ FailsStatement
               /\ result'.status =
                    Error("IndexRefsNonExistentColumn", "",
                          <<s.index_name, missing[1]>>)]_vars

\* C22: a declared key column of a CREATE INDEX is looked up in the indexed
\* table without regard to case.  A name that no column has, in whatever
\* case, fails the statement with IndexRefsNonExistentColumn for the index
\* and that name.  When every name is the name of a column in some case, a
\* name that is not exactly the name of a column fails the statement too,
\* with NonExistentKeyColumn for the index and that name.  Otherwise the
\* clause succeeds.
IndexKeysFound ==
  [][Applying =>
       \A i \in KeyClausesReached(Applied) :
         LET s == Applied
             indexed_table ==
               FindTable(heap, latest_schema_.graph, s.table_name)
             names == KeyNames(s.constraints[i].primary_key)
             unknown == NotColumnsOf(names, indexed_table)
             inexact == NotAmong(names, ColumnNamesOf(indexed_table))
         IN  IF unknown # <<>>
             THEN /\ FailsStatement
                  /\ result'.status =
                       Error("IndexRefsNonExistentColumn", "",
                             <<s.index_name, unknown[1]>>)
             ELSE IF inexact # <<>>
             THEN /\ FailsStatement
                  /\ result'.status =
                       Error("NonExistentKeyColumn", "Index",
                             <<s.index_name, inexact[1]>>)
             ELSE Ok(AppliedBefore(s, i + 1))]_vars

\* A CREATE INDEX with the key column B on a table with the column b failed
\* with NonExistentKeyColumn.
IndexKeysFoundWitness ==
  /\ pc = "done"
  /\ result.kind = "error"
  /\ result.status = Error("NonExistentKeyColumn", "Index",
                           <<Name("X"), Name("B")>>)
  /\ statements[Len(statements)].kind = "CreateIndex"

---------------------------------------------------------------------------
(* Properties of ALTER TABLE ... ALTER COLUMN *)

IsAlterColumn(s) ==
  /\ s.kind = "AlterTable"
  /\ s.has_alter_column
  /\ s.alter_column.type = "ALTER"

\* The constraints of a kind in a column definition.
ConstraintsOf(ddl_column, kind) ==
  LET IsKind(c) == c.kind = kind
  IN  SelectSeq(ddl_column.constraints, IsKind)

\* C23: ALTER TABLE ... ALTER COLUMN of a column the table has succeeds and
\* applies the definition from the defaults: the column is nullable unless
\* the definition says NOT NULL, and it has no declared length unless the
\* definition gives one, whatever it was before.  Its id and its name stay,
\* it stays the column at its place in its table, and allow_commit_timestamp
\* stays unless the definition has options, which then give its value.
AlterColumnFromDefaults ==
  [][(Applying /\ IsAlterColumn(Applied)) =>
       LET s == Applied
           ddl_column == s.alter_column.column
           table == FindTable(heap, latest_schema_.graph, s.table_name)
           column == FindColumn(heap, table, s.alter_column.column_name)
           new_table == FindTable(heap', latest_schema_'.graph, s.table_name)
           place == IndexOf(heap[table].columns, column)
           new_column == heap'[new_table].columns[place]
           not_null == ConstraintsOf(ddl_column, "NotNull")
           length == ConstraintsOf(ddl_column, "ColumnLength")
       IN  (table # NULL /\ column # NULL) =>
             /\ pc' = "apply"
             /\ heap'[new_table].name = heap[table].name
             /\ Len(heap'[new_table].columns) = Len(heap[table].columns)
             /\ new_column # column
             /\ heap'[new_column].nullable =
                  IF not_null = <<>> THEN TRUE
                  ELSE not_null[Len(not_null)].nullable
             /\ heap'[new_column].declared_max_length =
                  IF length = <<>> THEN -1
                  ELSE length[Len(length)].max_length
             /\ heap'[new_column].id = heap[column].id
             /\ heap'[new_column].name = heap[column].name
             /\ heap'[new_column].table = new_table
             /\ heap'[new_column].allow_commit_timestamp =
                  IF ~ddl_column.has_options
                  THEN heap[column].allow_commit_timestamp
                  ELSE IF ddl_column.options[Len(ddl_column.options)].kind
                            = "bool_value"
                       THEN IF ddl_column.options[
                                 Len(ddl_column.options)].bool_value
                            THEN "true" ELSE "false"
                       ELSE "nullopt"]_vars

\* A column that an ALTER COLUMN had given a length and the commit timestamp
\* option was altered again by a definition with no constraint and no option:
\* it has no length and still has the option.
AlterColumnFromDefaultsWitness ==
  /\ pc = "apply"
  /\ Len(impl_intermediate_schemas_) = 3
  /\ IsAlterColumn(statements[2])
  /\ statements[2].alter_column.column.has_options
  /\ ConstraintsOf(statements[2].alter_column.column, "ColumnLength") # <<>>
  /\ IsAlterColumn(statements[3])
  /\ ~statements[3].alter_column.column.has_options
  /\ statements[3].alter_column.column.constraints = <<>>
  /\ \E c \in NodesOf(latest_schema_, "Column") :
       /\ EqualsIgnoreCase(heap[c].name,
                           statements[3].alter_column.column_name)
       /\ heap[c].nullable
       /\ heap[c].declared_max_length = -1
       /\ heap[c].allow_commit_timestamp = "true"
       /\ heap[c].type = "STRING"

---------------------------------------------------------------------------
(* Properties of CREATE INDEX: the columns of the data table *)

\* The statements of the batch that are CREATE INDEX and were applied.
IndexesMade ==
  {k \in 1..Len(impl_intermediate_schemas_) :
     statements[k].kind = "CreateIndex"}

\* The index statement k of the batch made, in the snapshot it made.
IndexOfStatement(k) ==
  IndexMadeBy(statements[k], impl_intermediate_schemas_[k])

\* C24: in the snapshot a CREATE INDEX made, each declared key column of the
\* data table is not nullable when the index is null-filtered and as
\* nullable as its source column when it is not; each stored column is as
\* nullable as its source column, whether or not the index is null-filtered;
\* and the source column of every column of the data table is a column of the
\* indexed table.
IndexColumnsNullable ==
  \A k \in IndexesMade :
    LET index == IndexOfStatement(k)
        data_table == heap[index].index_data_table
        Source(c) == heap[heap[c].source_column]
    IN  /\ \A i \in 1..Len(heap[index].key_columns) :
             LET c == heap[heap[index].key_columns[i]].column
             IN  /\ c \in Range(heap[data_table].columns)
                 /\ heap[c].nullable =
                      IF heap[index].null_filtered THEN FALSE
                      ELSE Source(c).nullable
        /\ Len(heap[index].stored_columns) = Len(statements[k].columns)
        /\ \A i \in 1..Len(heap[index].stored_columns) :
             LET c == heap[index].stored_columns[i]
             IN  /\ c \in Range(heap[data_table].columns)
                 /\ EqualsIgnoreCase(heap[c].name,
                                     statements[k].columns[i].column_name)
                 /\ heap[c].nullable = Source(c).nullable
        /\ \A c \in Range(heap[data_table].columns) :
             /\ heap[c].source_column # NULL
             /\ heap[c].source_column
                  \in Range(heap[heap[index].indexed_table].columns)
             /\ heap[c].table = data_table

\* A null-filtered index with a key column and a stored column whose source
\* columns are nullable: the key column is not nullable, the stored one is.
IndexColumnsNullableWitness ==
  /\ pc = "apply"
  /\ \E k \in IndexesMade :
       LET index == IndexOfStatement(k)
           key == heap[heap[index].key_columns[1]].column
           stored == heap[index].stored_columns[1]
       IN  /\ heap[index].null_filtered
           /\ heap[index].stored_columns # <<>>
           /\ heap[heap[key].source_column].nullable
           /\ ~heap[key].nullable
           /\ heap[heap[stored].source_column].nullable
           /\ heap[stored].nullable

\* The columns of the data table of the index of statement k that come from
\* the primary key of the indexed table and are not declared keys of the
\* index: the columns of the key columns of the data table after the key
\* columns of the index.
AppendedColumns(k) ==
  LET index == IndexOfStatement(k)
      primary_key == heap[heap[index].index_data_table].primary_key
  IN  {heap[primary_key[i]].column :
         i \in (Len(heap[index].key_columns) + 1)..Len(primary_key)}

\* C25 as stated: a column of the data table appended from the primary key of
\* the indexed table is as nullable as its source column, whether or not the
\* index is null-filtered.
AppendedColumnsAsSource ==
  \A k \in IndexesMade : \A c \in AppendedColumns(k) :
    heap[c].nullable = heap[heap[c].source_column].nullable

\* C25: in the snapshot a CREATE INDEX made, a column of the data table
\* appended from the primary key of the indexed table is not nullable when
\* the index is null-filtered, and as nullable as its source column when it
\* is not.
AppendedColumnsNullable ==
  \A k \in IndexesMade : \A c \in AppendedColumns(k) :
    /\ heap[c].source_column # NULL
    /\ heap[c].nullable =
         IF heap[IndexOfStatement(k)].null_filtered THEN FALSE
         ELSE heap[heap[c].source_column].nullable

\* A null-filtered index on a table whose primary key column is nullable and
\* is not a declared key of the index: the appended column is not nullable.
AppendedColumnsNullableWitness ==
  /\ pc = "apply"
  /\ \E k \in IndexesMade : \E c \in AppendedColumns(k) :
       /\ heap[IndexOfStatement(k)].null_filtered
       /\ heap[heap[c].source_column].nullable
       /\ ~heap[c].nullable

---------------------------------------------------------------------------
(* Properties of DROP INDEX and DROP TABLE *)

\* The nodes of a snapshot that are left when the nodes `removed` are taken
\* out: in order, every reference replaced by the position among them of the
\* node referred to, and the removed nodes taken out of every list.
Remaining(s, removed) ==
  LET Stays(h) == h \notin removed
      left == SelectSeq(s.graph, Stays)
      position == [h \in 1..Len(heap) |->
                     IF h \in Range(left) THEN IndexOf(left, h) ELSE 0]
  IN  [i \in 1..Len(left) |-> Rewrite(heap[left[i]], removed, position)]

\* The nodes of a snapshot, in order, every reference replaced by the
\* position in the snapshot of the node referred to.
NodesIn(hp, s) ==
  LET position == [h \in 1..Len(hp) |->
                     IF h \in Range(s.graph) THEN IndexOf(s.graph, h) ELSE 0]
  IN  [i \in 1..Len(s.graph) |-> Rewrite(hp[s.graph[i]], {}, position)]

\* An index with its data table and the columns and key columns of the data
\* table.
IndexWithDataTable(index) ==
  LET data_table == heap[index].index_data_table
  IN  {index, data_table} \cup Range(heap[data_table].columns)
        \cup Range(heap[data_table].primary_key)

\* C26: DROP INDEX of a name that is the name of no index, in whatever case,
\* fails with IndexNotFound.  DROP INDEX of the index I succeeds, and the new
\* snapshot is the old one without I, the data table of I and the columns
\* and key columns of the data table: no index has the name of I, no table
\* lists I among its indexes or the data table among its children, and every
\* other node is as it was, in the same order.
IndexDropped ==
  [][(Applying /\ Applied.kind = "DropIndex") =>
       LET name == Applied.index_name
           found == {i \in NodesOf(latest_schema_, "Index") :
                       EqualsIgnoreCase(heap[i].name, name)}
           index == CHOOSE i \in found : TRUE
           removed == IndexWithDataTable(index)
           new == latest_schema_'
       IN  IF found = {}
           THEN /\ FailsStatement
                /\ result'.status = Error("IndexNotFound", "", <<name>>)
           ELSE /\ pc' = "apply"
                /\ Cardinality(found) = 1
                /\ Len(new.graph) = Len(latest_schema_.graph)
                                      - Cardinality(removed)
                /\ \A h \in Range(new.graph) :
                     /\ heap'[h].kind = "Index" =>
                          ~EqualsIgnoreCase(heap'[h].name, name)
                     /\ heap'[h].kind = "Table" =>
                          /\ heap'[h].name # heap[heap[index].index_data_table].name
                          /\ \A i \in Range(heap'[h].indexes) :
                               /\ i \in Range(new.graph)
                               /\ ~EqualsIgnoreCase(heap'[i].name, name)
                          /\ Range(heap'[h].children) \subseteq Range(new.graph)
                /\ NodesIn(heap', new) = Remaining(latest_schema_, removed)]_vars

\* An index of a table with two indexes was dropped by a name in another
\* case: the table lists the other index only.
IndexDroppedWitness ==
  /\ pc = "apply"
  /\ statements # <<>>
  /\ Len(impl_intermediate_schemas_) = Len(statements)
  /\ statements[Len(statements)].kind = "DropIndex"
  /\ num_index(heap, existing_schema.graph) = 2
  /\ \E i \in NodesOf(existing_schema, "Index") :
       /\ EqualsIgnoreCase(heap[i].name, statements[Len(statements)].index_name)
       /\ heap[i].name # statements[Len(statements)].index_name
  /\ \E t \in NodesOf(latest_schema_, "Table") : Len(heap[t].indexes) = 1

\* The indexes of the latest snapshot on a table, and the foreign keys of
\* other tables that refer to it.
IndexesOn(table) ==
  {i \in NodesOf(latest_schema_, "Index") : heap[i].indexed_table = table}

ForeignKeysTo(table) ==
  {f \in NodesOf(latest_schema_, "ForeignKey") :
     /\ heap[f].referenced_table = table
     /\ heap[f].referencing_table # table}

\* C27: DROP TABLE of a table that has an index on it or that a foreign key
\* of another table refers to fails and produces no snapshot.  DropTable
\* itself succeeds and records the delete of the table; the failure is the
\* one of the canonicalization.  The nodes of the latest snapshot and the
\* schema of the caller stay as they were.
ReferencedTableNotDropped ==
  [][(Applying /\ Applied.kind = "DropTable") =>
       LET table == FindTable(heap, latest_schema_.graph, Applied.table_name)
           recorded == DropTable(OpenEditor, Applied)
       IN  (table # NULL /\ (IndexesOn(table) # {} \/ ForeignKeysTo(table) # {}))
             => /\ FailsStatement
                /\ Ok(recorded)
                /\ recorded.deleted = {table}
                /\ result'.status = CanonicalizeGraph(recorded).status
                /\ Installed' = Installed
                /\ \A h \in Range(latest_schema_.graph) : heap'[h] = heap[h]]_vars

\* A DROP TABLE of a table that a foreign key of another table refers to
\* failed as the third statement of a batch, after the two tables were made.
ReferencedTableNotDroppedWitness ==
  /\ pc = "done"
  /\ result.kind = "error"
  /\ result.status.code = "DanglingReference"
  /\ Len(statements) = 3
  /\ statements[3].kind = "DropTable"
  /\ statements[1].kind = "CreateTable"
  /\ EqualsIgnoreCase(statements[1].table_name, statements[3].table_name)
  /\ statements[2].kind = "CreateTable"
  /\ \E c \in 1..Len(statements[2].constraints) :
       /\ statements[2].constraints[c].kind = "ForeignKey"
       /\ statements[2].constraints[c].foreign_key.referenced_table_name
            = statements[1].table_name

---------------------------------------------------------------------------
(* Properties of CREATE INDEX: the order of the nodes and the backfill *)

\* The place of a node in a snapshot.
PlaceIn(s, h) == IndexOf(s.graph, h)

\* C28: in every snapshot an index comes before its data table in the order
\* of the nodes.  The context of a CREATE INDEX statement holds one action:
\* the BackfillIndex of the index the statement made, which comes before its
\* data table in the snapshot of the statement; no other context of the batch
\* holds an action for that index.
IndexBeforeDataTable ==
  /\ \A s \in Snapshots : \A i \in NodesOf(s, "Index") :
       /\ heap[i].index_data_table \in Range(s.graph)
       /\ PlaceIn(s, i) < PlaceIn(s, heap[i].index_data_table)
  /\ \A k \in 1..Len(pending_work) :
       statements[k].kind = "CreateIndex" =>
         LET new == pending_work[k].new_schema
             index == IndexMadeBy(statements[k], new)
         IN  /\ index # NULL
             /\ index \notin Range(pending_work[k].old_schema.graph)
             /\ PlaceIn(new, index) < PlaceIn(new, heap[index].index_data_table)
             /\ pending_work[k].actions =
                  <<[kind |-> "BackfillIndex", index |-> index]>>
             /\ \A j \in 1..Len(pending_work) : j # k =>
                  \A a \in 1..Len(pending_work[j].actions) :
                    pending_work[j].actions[a].index # index

\* A batch whose second and third statements each made an index: each of the
\* two contexts holds the backfill of its own index.
IndexBeforeDataTableWitness ==
  /\ pc = "apply"
  /\ Len(pending_work) = 3
  /\ statements[2].kind = "CreateIndex"
  /\ statements[3].kind = "CreateIndex"
  /\ pending_work[1].actions = <<>>
  /\ Len(pending_work[2].actions) = 1
  /\ Len(pending_work[3].actions) = 1
  /\ pending_work[2].actions[1].index # pending_work[3].actions[1].index

---------------------------------------------------------------------------
(* Properties of the empty batch and of the empty statement *)

\* What a call on an empty list of statements has returned.
EmptyBatchReturned ==
  pc = "done" /\ num_statements = 0 =>
    CASE op = "Validate" -> /\ result.kind = "schema"
                            /\ result.status = OkStatus
                            /\ result.schema.null
      [] op = "Update" -> /\ result.kind = "change"
                          /\ result.num_successful_statements = 0
                          /\ result.schema.null
                          /\ result.backfill_status = OkStatus
      [] op = "Create" -> /\ result.kind = "schema"
                          /\ result.status = OkStatus
                          /\ result.schema.null
      [] OTHER -> FALSE

\* C30: on an empty list of statements ValidateSchemaFromDDL returns OK with
\* a null snapshot, whatever the existing schema, UpdateSchemaFromDDL returns
\* num_successful_statements = 0, a null updated_schema and an OK
\* backfill_status, and CreateSchemaFromDDL returns OK with a null snapshot;
\* the application of an empty statement fails the batch with
\* EmptyDDLStatement.
EmptyBatchAndStatement ==
  [][/\ EmptyBatchReturned'
     /\ Applying /\ Applied = EmptyStmt =>
          /\ FailsStatement
          /\ result'.status = Error("EmptyDDLStatement", "", <<>>)]_vars

\* ValidateSchemaFromDDL has returned from an empty list of statements on an
\* existing schema that holds a table.
EmptyBatchAndStatementWitness ==
  /\ pc = "done"
  /\ op = "Validate"
  /\ num_statements = 0
  /\ existing_schema.graph # <<>>
  /\ result.kind = "schema"
  /\ result.schema.null

====
